---- MODULE Spec2Model ----
(***************************************************************************)
(* Trace correlation and segmentation engine of dev-agent-lens:            *)
(*   - session-id extraction  (scripts/src/query_traces.py,                *)
(*                             scripts/src/reconstruct_sessions.py)        *)
(*   - grouping by session    (scripts/src/query_traces.py)                *)
(*   - trace grouping and span-tree printing                               *)
(*                            (scripts/src/reconstruct_sessions.py)        *)
(*                                                                         *)
(* Python strings are modelled as sequences of one-character strings so    *)
(* that `in`, str.split and str() are computed, not assumed.               *)
(***************************************************************************)
EXTENDS Integers, Sequences, FiniteSets, TLC

VARIABLES
    \* ---- session-id resolver (one row handed to both extract_session_id) ----
    row,        \* the DataFrame row: metadata, trace id, whether the column exists
    qt_out,     \* outcome of query_traces.extract_session_id(row)
    rs_out,     \* outcome of reconstruct_sessions.extract_session_id(row.metadata)
    \* ---- group_by_session ----
    gdf,        \* the DataFrame handed to group_by_session (sequence of rows)
    gcol,       \* whether gdf has a 'context.trace_id' column
    gsid,       \* the 'session_id' column written by df.apply
    grouped,    \* the dict being returned: sequence of [key, rows]
    gkeys,      \* group keys still to be visited by the for loop
    gpc,        \* position in group_by_session
    \* ---- reconstruct_by_trace_id / build_span_tree ----
    df,         \* the loaded DataFrame (sequence of spans, sorted by start_time)
    limit,      \* the limit argument
    trace_ids,  \* df['context.trace_id'].unique()
    ti,         \* enumerate index of the trace loop (0-based count of traces done)
    trace_df,   \* positions (in df) of the current trace's spans, sorted
    roots,      \* roots still to be printed for the current trace
    stack,      \* active build_span_tree calls: [root_span_id, todo children, indent]
    out,        \* everything printed so far: [trace, span, role, parent, indent]
    tpc,        \* position in reconstruct_by_trace_id
    \* ---- detect_conversation_boundaries ----
    sdf,                    \* the DataFrame (sequence of rows, sorted by start_time)
    gap_threshold_seconds,  \* the threshold argument
    conversations,          \* the list being returned: sequence of lists of rows
    current_conversation,   \* the rows of the conversation being collected
    last_end_time,          \* end_time of the row before, None before the first
    si,                     \* number of rows the loop has consumed
    spc,                    \* position in detect_conversation_boundaries
    \* ---- compare_messages / check_complete_containment ----
    earlier_msgs,  \* the earlier message list
    later_msgs,    \* the later message list
    cm_out,        \* result of compare_messages(earlier_msgs, later_msgs)
    cc_out,        \* result of check_complete_containment(earlier_msgs, later_msgs)
    \* ---- main of reconstruct_sessions.py ----
    args,       \* the parsed command line
    mpc,        \* position in main
    \* ---- validate_environment ----
    request,    \* the arguments of one call of validate_environment
    ve_out      \* its outcome: the headers returned, or the error raised

resolverVars == <<row, qt_out, rs_out>>
groupVars    == <<gdf, gcol, gsid, grouped, gkeys, gpc>>
treeVars     == <<df, limit, trace_ids, ti, trace_df, roots, stack, out, tpc>>
segVars      == <<sdf, gap_threshold_seconds, conversations, current_conversation,
                  last_end_time, si, spc>>
compareVars  == <<earlier_msgs, later_msgs, cm_out, cc_out>>
mainVars     == <<args, mpc>>
authVars     == <<request, ve_out>>
vars         == <<row, qt_out, rs_out, gdf, gcol, gsid, grouped, gkeys, gpc,
                  df, limit, trace_ids, ti, trace_df, roots, stack, out, tpc,
                  sdf, gap_threshold_seconds, conversations, current_conversation,
                  last_end_time, si, spc, earlier_msgs, later_msgs, cm_out, cc_out,
                  args, mpc, request, ve_out>>

(***************************************************************************)
(* Python values and strings                                               *)
(***************************************************************************)

\* The literal 'session_' both resolvers search for.
SessionPat == <<"s", "e", "s", "s", "i", "o", "n", "_">>

\* The default of row.get('context.trace_id', 'unknown').
Unknown == <<"u", "n", "k", "n", "o", "w", "n">>

\* A Python value: kind is "absent" (key not in the dict), "none", "nan",
\* "str", "int" (chars are its decimal digits) or "list" (a one-element
\* list whose element is the str chars).
PyVal(k, c) == [kind |-> k, chars |-> c]
PyNone      == PyVal("none", <<>>)
PyNaN       == PyVal("nan", <<>>)
PyAbsent    == PyVal("absent", <<>>)
PyStr(c)    == PyVal("str", c)

\* dict.get(key): a missing key reads as None.
DictGet(v) == IF v.kind = "absent" THEN PyNone ELSE v

\* bool(v)
Truthy(v) ==
    CASE v.kind = "str"  -> v.chars # <<>>
      [] v.kind = "int"  -> v.chars # <<"0">>
      [] v.kind = "list" -> TRUE
      [] v.kind = "nan"  -> TRUE
      [] OTHER           -> FALSE

\* str(v): a str is itself, an int its digits, a list its repr "['...']".
Str(v) ==
    CASE v.kind = "str"  -> v.chars
      [] v.kind = "int"  -> v.chars
      [] v.kind = "list" -> <<"[", "'">> \o v.chars \o <<"'", "]">>
      [] v.kind = "nan"  -> <<"n", "a", "n">>
      [] OTHER           -> <<"N", "o", "n", "e">>

\* s[i:] (1-based i)
Tail_(s, i) == SubSeq(s, i, Len(s))

\* positions where an occurrence of p starts in s
Occurrences(s, p) ==
    {i \in 1..(Len(s) - Len(p) + 1) : SubSeq(s, i, i + Len(p) - 1) = p}

\* p in s, for two str
StrContains(s, p) == Occurrences(s, p) # {}

Min(S) == CHOOSE x \in S : \A y \in S : x <= y
Max(S) == CHOOSE x \in S : \A y \in S : x >= y

\* s.split(p)[1] when there is an occurrence: the piece between the first
\* and the second occurrence (a plausible slip for [-1]).
RECURSIVE SplitSecond(_, _)
SplitSecond(s, p) ==
    IF Occurrences(s, p) = {} THEN s
    ELSE LET rest == Tail_(s, Min(Occurrences(s, p)) + Len(p))
         IN  IF Occurrences(rest, p) = {} THEN rest
             ELSE SubSeq(rest, 1, Min(Occurrences(rest, p)) - 1)

\* s.split(p)[-1]: str.split scans left to right, cutting at each leftmost
\* non-overlapping occurrence; the last piece is what remains after the
\* last cut.
RECURSIVE SplitLast(_, _)
SplitLast(s, p) ==
    IF Occurrences(s, p) = {} THEN s
    ELSE SplitLast(Tail_(s, Min(Occurrences(s, p)) + Len(p)), p)

(***************************************************************************)
(* Session-id resolvers                                                    *)
(***************************************************************************)

\* An outcome of a call: a returned value (with the branch that returned
\* it) or a raised exception.
Return(v, branch) == [tag |-> "return", val |-> v, via |-> branch, exc |-> ""]
Raise(e)          == [tag |-> "raise", val |-> PyNone, via |-> "", exc |-> e]
Pending           == [tag |-> "pending", val |-> PyNone, via |-> "", exc |-> ""]

\* bool(metadata) for the metadata cell of a row
MetaTruthy(m) ==
    CASE m.kind = "dict" -> \/ m.user_id.kind # "absent"
                            \/ m.end_user.kind # "absent"
                            \/ m.req.kind # "absent"
                            \/ m.other
      [] m.kind = "list" -> m.n > 0
      [] m.kind = "str"  -> TRUE
      [] m.kind = "nan"  -> TRUE
      [] OTHER           -> FALSE

\* row.get('context.trace_id', 'unknown'): the default is used only when
\* the column does not exist; a null cell is returned as it is.
TraceFallback(r) == IF r.has_col THEN r.trace_id ELSE PyStr(Unknown)

\* str(user_id).split('session_')[1]: a plausible slip for [-1].
AfterSessionFirst(s) == SplitSecond(s, SessionPat)

\* str(user_id).split('session_')[-1]
AfterSession(s) == SplitLast(s, SessionPat)

\* `user_id and 'session_' in str(user_id)`
QtHit(u) == Truthy(u) /\ StrContains(Str(u), SessionPat)

\* The lookups with user_api_key_end_user_id tried before user_id.
QtLookupsSwapped(m) ==
    << [val |-> DictGet(m.end_user), via |-> "user_api_key_end_user_id", on |-> TRUE],
       [val |-> DictGet(m.user_id), via |-> "user_id", on |-> TRUE],
       [val |-> DictGet(m.req.user_id), via |-> "requester_metadata.user_id",
        on |-> m.req.kind = "dict"] >>

\* The three lookups of query_traces.extract_session_id in the order the
\* function makes them; the third is made only when requester_metadata is
\* a dict.
QtLookups(m) ==
    << [val |-> DictGet(m.user_id), via |-> "user_id", on |-> TRUE],
       [val |-> DictGet(m.end_user), via |-> "user_api_key_end_user_id", on |-> TRUE],
       [val |-> DictGet(m.req.user_id), via |-> "requester_metadata.user_id",
        on |-> m.req.kind = "dict"] >>

\* query_traces.extract_session_id(row)
qt_extract_session_id(r) ==
    LET m == r.metadata IN
    IF ~MetaTruthy(m) \/ m.kind # "dict"
    THEN Return(TraceFallback(r), "fallback")
    ELSE
      LET c == QtLookups(m)
      IN  IF c[1].on /\ QtHit(c[1].val)
          THEN Return(PyStr(AfterSession(Str(c[1].val))), c[1].via)
          ELSE IF c[2].on /\ QtHit(c[2].val)
          THEN Return(PyStr(AfterSession(Str(c[2].val))), c[2].via)
          ELSE IF c[3].on /\ QtHit(c[3].val)
          THEN Return(PyStr(AfterSession(Str(c[3].val))), c[3].via)
          ELSE Return(TraceFallback(r), "fallback")

\* pd.isna(metadata) used as a condition: a scalar gives a bool; a list
\* gives an array, whose truth value is that of its element when it has
\* one and a ValueError when it has more.
IsNaCond(m) ==
    CASE m.kind \in {"none", "nan"} -> "true"
      [] m.kind = "list" /\ m.n >= 2 -> "ValueError"
      [] OTHER                       -> "false"

\* `'session_' in user_id` followed by `user_id.split('session_')[-1]`, for
\* a truthy user_id that was not converted with str():
\*   str  -> substring test, then split
\*   int  -> TypeError (argument of type 'int' is not iterable)
\*   list -> membership test; a list has no split (AttributeError)
\* The result is "miss", a raised exception, or the returned value.
RsProbe(u, branch) ==
    CASE ~Truthy(u)        -> Pending
      [] u.kind = "str"    -> IF StrContains(u.chars, SessionPat)
                              THEN Return(PyStr(AfterSession(u.chars)), branch)
                              ELSE Pending
      [] u.kind = "list"   -> IF u.chars = SessionPat
                              THEN Raise("AttributeError")
                              ELSE Pending
      [] OTHER             -> Raise("TypeError")

\* reconstruct_sessions.extract_session_id(metadata)
\* (analyze_sessions.extract_session_id is the same text)
rs_extract_session_id(m) ==
    IF IsNaCond(m) = "ValueError" THEN Raise("ValueError")
    ELSE IF IsNaCond(m) = "true" \/ m.kind # "dict" THEN Return(PyNone, "none")
    ELSE
      LET p2 == RsProbe(DictGet(m.end_user), "user_api_key_end_user_id")
          rq == m.req
          p3 == RsProbe(DictGet(rq.user_id), "requester_metadata.user_id")
      IN  IF p2.tag # "pending" THEN p2
          ELSE IF rq.kind = "dict" /\ p3.tag # "pending" THEN p3
          ELSE Return(PyNone, "none")

(***************************************************************************)
(* Inputs of the resolver                                                  *)
(***************************************************************************)

Chars(a, b) == a \o SessionPat \o b

\* 'abc_session_42'
Abc42 == Chars(<<"a", "b", "c", "_">>, <<"4", "2">>)

\* Candidate values of user_id / user_api_key_end_user_id /
\* requester_metadata.user_id.
Values ==
    { PyAbsent,
      PyStr(<<>>),
      PyStr(<<"u", "1">>),
      PyStr(Chars(<<"a", "b", "c", "_">>, <<"4", "2">>)),       \* 'abc_session_42'
      PyStr(Chars(<<>>, <<>>)),                                 \* 'session_'
      PyStr(Chars(<<>>, <<"X">>)),                              \* 'session_X'
      PyStr(Chars(<<"a">>, <<"b", "_">>) \o Chars(<<>>, <<"c">>)), \* 'asession_b_session_c'
      PyVal("int", <<"4", "2">>),                               \* 42
      PyVal("list", Chars(<<>>, <<"X">>)),                      \* ['session_X']
      PyVal("list", SessionPat) }                               \* ['session_']

\* requester_metadata: absent, a dict holding user_id, or a non-dict.
ReqMetas ==
    { [kind |-> "absent", user_id |-> PyAbsent],
      [kind |-> "str", user_id |-> PyAbsent] }
    \cup { [kind |-> "dict", user_id |-> v] : v \in Values }

NoReq == [kind |-> "absent", user_id |-> PyAbsent]

Meta(k, n, u1, u2, rq, o) ==
    [kind |-> k, n |-> n, user_id |-> u1, end_user |-> u2, req |-> rq, other |-> o]

\* A metadata cell that is not a dict: None, NaN, a str, a list of n items.
NonDictMetas ==
    { Meta("none", 0, PyAbsent, PyAbsent, NoReq, FALSE),
      Meta("nan", 0, PyAbsent, PyAbsent, NoReq, FALSE),
      Meta("str", 0, PyAbsent, PyAbsent, NoReq, FALSE),
      Meta("list", 1, PyAbsent, PyAbsent, NoReq, FALSE),
      Meta("list", 2, PyAbsent, PyAbsent, NoReq, FALSE) }

DictMetas ==
    { Meta("dict", 0, u1, u2, rq, o) :
        u1 \in Values, u2 \in Values, rq \in ReqMetas, o \in BOOLEAN }

EmptyDict == Meta("dict", 0, PyAbsent, PyAbsent, NoReq, FALSE)

T1 == <<"T", "1">>
T2 == <<"T", "2">>

Row(m, t, c) == [metadata |-> m, trace_id |-> t, has_col |-> c]

\* A row of a frame without a 'context.trace_id' column has no trace cell.
Rows ==
    { Row(m, t, TRUE) : m \in NonDictMetas \cup DictMetas, t \in {PyNone, PyStr(T1)} }
    \cup { Row(m, PyNone, FALSE) : m \in NonDictMetas \cup DictMetas }

NoRow == Row(EmptyDict, PyNone, FALSE)

ResolverIdle ==
    /\ row = NoRow
    /\ qt_out = Pending
    /\ rs_out = Pending

ResolverInit ==
    /\ row \in Rows
    /\ qt_out = Pending
    /\ rs_out = Pending

\* one call of query_traces.extract_session_id on the row
QtExtract ==
    /\ qt_out = Pending
    /\ qt_out' = qt_extract_session_id(row)
    /\ UNCHANGED <<row, rs_out>>

\* one call of reconstruct_sessions.extract_session_id on the row's metadata
RsExtract ==
    /\ rs_out = Pending
    /\ rs_out' = rs_extract_session_id(row.metadata)
    /\ UNCHANGED <<row, qt_out>>

(***************************************************************************)
(* group_by_session (query_traces.py)                                      *)
(***************************************************************************)

\* Code points of the characters that occur in group keys.
Ord(c) ==
    CASE c = "1" -> 49 [] c = "2" -> 50 [] c = "4" -> 52
      [] c = "T" -> 84 [] c = "X" -> 88
      [] c = "k" -> 107 [] c = "n" -> 110 [] c = "o" -> 111
      [] c = "u" -> 117 [] c = "w" -> 119
      [] OTHER -> 0

\* a < b for two str (lexicographic by code point)
RECURSIVE StrLess(_, _)
StrLess(a, b) ==
    IF b = <<>> THEN FALSE
    ELSE IF a = <<>> THEN TRUE
    ELSE IF Ord(Head(a)) # Ord(Head(b)) THEN Ord(Head(a)) < Ord(Head(b))
    ELSE StrLess(Tail(a), Tail(b))

\* The elements of a finite set of str in ascending order.
RECURSIVE SortedStrs(_)
SortedStrs(S) ==
    IF S = {} THEN <<>>
    ELSE LET lo == CHOOSE x \in S : \A y \in S \ {x} : StrLess(x, y)
         IN  <<lo>> \o SortedStrs(S \ {lo})

\* pd.notna(v) for a scalar
NotNa(v) == v.kind \notin {"none", "nan"}

\* The rows of a group: the positions of the column (from i on) whose value
\* is the key, in the order of the frame.
RECURSIVE GroupRows(_, _, _)
GroupRows(col, i, key) ==
    IF i > Len(col) THEN <<>>
    ELSE (IF NotNa(col[i]) /\ col[i].chars = key THEN <<i>> ELSE <<>>)
         \o GroupRows(col, i + 1, key)

\* The keys df.groupby('session_id') iterates over: the distinct values of
\* the column that are not null (dropna defaults to True), sorted.
GroupKeys(col) ==
    SortedStrs({col[i].chars : i \in {j \in 1..Len(col) : NotNa(col[j])}})

\* df.apply(extract_session_id, axis=1): the returned value of each row
SessionIdColumn(d) == [i \in 1..Len(d) |-> qt_extract_session_id(d[i]).val]

\* `if df.empty: return {}`, else the session_id column is written and the
\* groupby is started.
GApply ==
    /\ gpc = "start"
    /\ IF Len(gdf) = 0
       THEN /\ gpc' = "done"
            /\ UNCHANGED <<gsid, gkeys>>
       ELSE /\ gsid' = SessionIdColumn(gdf)
            /\ gkeys' = GroupKeys(SessionIdColumn(gdf))
            /\ gpc' = "loop"
    /\ UNCHANGED <<gdf, gcol, grouped>>

\* One iteration of `for session_id, group_df in df.groupby('session_id')`:
\* grouped[str(session_id)] = group_df.to_dict('records') when the key is
\* not null. A group holds its rows in the order of the frame.
GLoop ==
    /\ gpc = "loop"
    /\ gkeys # <<>>
    /\ LET key == Head(gkeys)
           members == GroupRows(gsid, 1, key)
       IN  grouped' = IF NotNa(PyStr(key))
                      THEN Append(grouped, [key |-> key, rows |-> members])
                      ELSE grouped
    /\ gkeys' = Tail(gkeys)
    /\ UNCHANGED <<gdf, gcol, gsid, gpc>>

\* `return grouped`
GReturn ==
    /\ gpc = "loop"
    /\ gkeys = <<>>
    /\ gpc' = "done"
    /\ UNCHANGED <<gdf, gcol, gsid, grouped, gkeys>>

(***************************************************************************)
(* Inputs of group_by_session                                              *)
(***************************************************************************)

MaxRows == 3

DictWith(u1, u2) == Meta("dict", 0, u1, u2, NoReq, FALSE)

\* Metadata cells of the rows handed to group_by_session: no metadata, a
\* session id under user_id, one under user_api_key_end_user_id, and a
\* user_id that ends in 'session_'.
GroupMetas ==
    { Meta("none", 0, PyAbsent, PyAbsent, NoReq, FALSE),
      DictWith(PyStr(Abc42), PyAbsent),
      DictWith(PyAbsent, PyStr(Chars(<<>>, <<"X">>))),
      DictWith(PyStr(SessionPat), PyAbsent) }

\* The trace cells of a frame: null or a trace id when the column exists.
GroupTraces(c) == IF c THEN {PyNone, PyStr(T1), PyStr(T2)} ELSE {PyNone}

GroupInit ==
    /\ gcol \in BOOLEAN
    /\ \E n \in 0..MaxRows :
         gdf \in [1..n -> {Row(m, t, gcol) : m \in GroupMetas, t \in GroupTraces(gcol)}]
    /\ gsid = <<>>
    /\ grouped = <<>>
    /\ gkeys = <<>>
    /\ gpc = "start"

(***************************************************************************)
(* reconstruct_by_trace_id and build_span_tree (reconstruct_sessions.py)   *)
(*                                                                         *)
(* A span is [span_id, trace_id, parent_id, start_time]. Span ids are the  *)
(* positive integers; parent_id 0 is a null parent and a parent_id that is *)
(* no span's id is a dangling reference. trace_id "" is a null trace id.   *)
(* start_time 0 is NaT.                                                    *)
(***************************************************************************)

IsNa(x) == x = 0

\* a sorts before or with b in sort_values('start_time'): NaT sorts last
TimeLE(a, b) == IsNa(b) \/ (~IsNa(a) /\ a <= b)

\* insert position p into the sorted list ps, after every element that
\* does not sort after it (sorting keeps the order of equal keys)
RECURSIVE InsertByStart(_, _, _)
InsertByStart(d, ps, p) ==
    IF ps = <<>> THEN <<p>>
    ELSE IF TimeLE(d[Head(ps)].start_time, d[p].start_time)
         THEN <<Head(ps)>> \o InsertByStart(d, Tail(ps), p)
         ELSE <<p>> \o ps

\* positions ps of frame d after .sort_values('start_time')
RECURSIVE SortByStart(_, _)
SortByStart(d, ps) ==
    IF ps = <<>> THEN <<>>
    ELSE InsertByStart(d, SortByStart(d, SubSeq(ps, 1, Len(ps) - 1)), ps[Len(ps)])

\* the elements of ps that satisfy a test given as a set of positions
RECURSIVE Filter(_, _)
Filter(ps, keep) ==
    IF ps = <<>> THEN <<>>
    ELSE (IF Head(ps) \in keep THEN <<Head(ps)>> ELSE <<>>) \o Filter(Tail(ps), keep)

AllPositions(d) == [i \in 1..Len(d) |-> i]

\* df['context.trace_id'].unique(): the distinct values in order of first
\* appearance, a null value included
RECURSIVE Unique(_, _)
Unique(d, i) ==
    IF i > Len(d) THEN <<>>
    ELSE (IF \E j \in 1..(i - 1) : d[j].trace_id = d[i].trace_id
          THEN <<>> ELSE <<d[i].trace_id>>) \o Unique(d, i + 1)

\* df[df['context.trace_id'] == trace_id]: a null trace id equals nothing,
\* itself included
SelectTrace(d, t) ==
    Filter(AllPositions(d), {i \in 1..Len(d) : t # "" /\ d[i].trace_id = t})

\* The children sorted with ascending=False.
ChildrenDescending(d, ps, id) ==
    LET cs == SortByStart(d, Filter(ps, {i \in 1..Len(d) : d[i].parent_id = id}))
    IN  [k \in 1..Len(cs) |-> cs[Len(cs) + 1 - k]]

\* df[df['parent_id'] == root_span_id].sort_values('start_time')
Children(d, ps, id) ==
    SortByStart(d, Filter(ps, {i \in 1..Len(d) : d[i].parent_id = id}))

\* The root selection also taking a span that names itself as its parent
\* (demoting a self-parented span to a root without guarding the recursion).
RootsOrSelfParented(d, ps) ==
    Filter(ps, {i \in 1..Len(d) : IsNa(d[i].parent_id) \/ d[i].parent_id = d[i].span_id})

\* trace_df[trace_df['parent_id'].isna()]
RootsOf(d, ps) == Filter(ps, {i \in 1..Len(d) : IsNa(d[i].parent_id)})

Line(role, t, sp, par, ind, rws) ==
    [role |-> role, trace |-> t, span |-> sp, parent |-> par, indent |-> ind,
     rows |-> rws]

Frame(id, todo, ind) == [root_span_id |-> id, todo |-> todo, indent |-> ind]

\* trace_ids[:limit]
Shown == IF limit < Len(trace_ids) THEN limit ELSE Len(trace_ids)

\* `trace_ids = df['context.trace_id'].unique()`
TStart ==
    /\ tpc = "start"
    /\ trace_ids' = Unique(df, 1)
    /\ ti' = 0
    /\ tpc' = "traces"
    /\ UNCHANGED <<df, limit, trace_df, roots, stack, out>>

\* The head of one iteration of `for i, trace_id in enumerate(trace_ids[:limit])`:
\* the trace's rows are selected and sorted, the header is printed
\* (trace_id[:16] raises TypeError for a null trace id) and the roots are
\* selected.
TNextTrace ==
    /\ tpc = "traces"
    /\ stack = <<>>
    /\ roots = <<>>
    /\ ti < Shown
    /\ LET t  == trace_ids[ti + 1]
           ps == SortByStart(df, SelectTrace(df, t))
       IN  /\ trace_df' = ps
           /\ ti' = ti + 1
           /\ IF t = ""
              THEN /\ tpc' = "raised"
                   /\ UNCHANGED <<roots, out>>
              ELSE /\ out' = Append(out, Line("trace", t, 0, 0, 0, ps))
                   /\ roots' = RootsOf(df, ps)
                   /\ tpc' = "traces"
    /\ UNCHANGED <<df, limit, trace_ids, stack>>

\* One iteration of `for _, root in roots.iterrows()`: the ROOT line is
\* printed and build_span_tree(trace_df, root['context.span_id'], 1) is
\* entered.
TRoot ==
    /\ tpc = "traces"
    /\ stack = <<>>
    /\ roots # <<>>
    /\ LET r == Head(roots)
       IN  /\ out' = Append(out, Line("root", df[r].trace_id, df[r].span_id, 0, 0, <<>>))
           /\ stack' = <<Frame(df[r].span_id, Children(df, trace_df, df[r].span_id), 1)>>
    /\ roots' = Tail(roots)
    /\ UNCHANGED <<df, limit, trace_ids, ti, trace_df, tpc>>

\* One iteration of `for _, child in children.iterrows()` in the innermost
\* active build_span_tree: the child's line is appended and
\* build_span_tree(df, child['context.span_id'], indent + 1) is entered.
BChild ==
    /\ stack # <<>>
    /\ stack[Len(stack)].todo # <<>>
    /\ LET top == stack[Len(stack)]
           c   == Head(top.todo)
       IN  /\ out' = Append(out, Line("child", df[c].trace_id, df[c].span_id,
                                      top.root_span_id, top.indent, <<>>))
           /\ stack' = Append([stack EXCEPT ![Len(stack)].todo = Tail(top.todo)],
                              Frame(df[c].span_id,
                                    Children(df, trace_df, df[c].span_id),
                                    top.indent + 1))
    /\ UNCHANGED <<df, limit, trace_ids, ti, trace_df, roots, tpc>>

\* `return lines` of the innermost active build_span_tree
BReturn ==
    /\ stack # <<>>
    /\ stack[Len(stack)].todo = <<>>
    /\ stack' = SubSeq(stack, 1, Len(stack) - 1)
    /\ UNCHANGED <<df, limit, trace_ids, ti, trace_df, roots, out, tpc>>

\* the trace loop is exhausted: reconstruct_by_trace_id returns
TDone ==
    /\ tpc = "traces"
    /\ stack = <<>>
    /\ roots = <<>>
    /\ ti >= Shown
    /\ tpc' = "done"
    /\ UNCHANGED <<df, limit, trace_ids, ti, trace_df, roots, stack, out>>

(***************************************************************************)
(* Inputs of reconstruct_by_trace_id                                       *)
(***************************************************************************)

MaxSpans == 3

\* the default of --trace-limit
TraceLimit == 5

\* start_time columns of a frame of n spans as load_trace_data leaves it
\* (sorted, NaT last): all distinct, or equal times followed by one NaT.
TimeShapes(n) ==
    { [i \in 1..n |-> i], [i \in 1..n |-> IF i = n THEN 0 ELSE 1] }

\* trace_id columns: null, 'T1' or 'T2' per span, the first trace id that
\* occurs being 'T1'.
TraceShapes(n) ==
    { f \in [1..n -> {"", "T1", "T2"}] :
        \A i \in 1..n : f[i] = "T2" => \E j \in 1..(i - 1) : f[j] = "T1" }

\* parent_id columns: null (0), any span of the frame, or an id of no span (-1)
ParentShapes(n) == [1..n -> (-1)..n]

TreeInit ==
    /\ \E n \in 0..MaxSpans :
         \E tm \in TimeShapes(n), tr \in TraceShapes(n), pa \in ParentShapes(n) :
            df = [i \in 1..n |-> [span_id |-> i, trace_id |-> tr[i],
                                  parent_id |-> pa[i], start_time |-> tm[i]]]
    /\ limit \in {2, TraceLimit}
    /\ trace_ids = <<>>
    /\ ti = 0
    /\ trace_df = <<>>
    /\ roots = <<>>
    /\ stack = <<>>
    /\ out = <<>>
    /\ tpc = "start"

(***************************************************************************)
(* detect_conversation_boundaries (reconstruct_sessions.py)                *)
(*                                                                         *)
(* A row of the frame is [start_time, end_time] in whole seconds, 0 being  *)
(* NaT (load_trace_data coerces both columns with pd.to_datetime). The     *)
(* index labels of the frame are unique (read_json gives a RangeIndex and  *)
(* sort_values keeps the labels); a row is named by its position.          *)
(***************************************************************************)

\* `last_end_time = None`
NoneTime == -1

\* The difference taken with NaT read as the epoch.
SecondsSinceEpoch(start_time, last) == [nan |-> FALSE, secs |-> start_time - last]

\* (start_time - last_end_time).total_seconds(): NaT in either operand gives
\* NaT, whose total_seconds() is nan
TotalSeconds(start_time, last) ==
    IF IsNa(start_time) \/ IsNa(last)
    THEN [nan |-> TRUE, secs |-> 0]
    ELSE [nan |-> FALSE, secs |-> start_time - last]

\* The test `gap >= gap_threshold_seconds` in place of `>`.
GapReaches(gap, t) == ~gap.nan /\ gap.secs >= t

\* The test `not gap <= gap_threshold_seconds` in place of `>`: true of nan.
GapNotWithin(gap, t) == ~(~gap.nan /\ gap.secs <= t)

\* `gap > gap_threshold_seconds`: every comparison with nan is False
GapExceeds(gap, t) == ~gap.nan /\ gap.secs > t

\* Saving only conversations of more than one span.
SaveLong(convs, cur) == IF Len(cur) > 1 THEN Append(convs, cur) ELSE convs

\* `if current_conversation: conversations.append(df.loc[current_conversation].copy())`
\* (df.loc with a list of unique labels gives the rows in the order of the list)
Save(convs, cur) == IF cur # <<>> THEN Append(convs, cur) ELSE convs

\* One iteration of `for idx, row in df.iterrows()`.
SegRow ==
    /\ spc = "loop"
    /\ si < Len(sdf)
    /\ LET idx == si + 1
           start_time == sdf[idx].start_time
       IN  /\ IF last_end_time = NoneTime
              THEN /\ current_conversation' = Append(current_conversation, idx)
                   /\ UNCHANGED conversations
              ELSE IF GapExceeds(TotalSeconds(start_time, last_end_time),
                                 gap_threshold_seconds)
                   THEN /\ conversations' = Save(conversations, current_conversation)
                        /\ current_conversation' = <<idx>>
                   ELSE /\ current_conversation' = Append(current_conversation, idx)
                        /\ UNCHANGED conversations
           /\ last_end_time' = sdf[idx].end_time
           /\ si' = idx
    /\ UNCHANGED <<sdf, gap_threshold_seconds, spc>>

\* The loop is exhausted: the last conversation is saved and the list is
\* returned.
SegReturn ==
    /\ spc = "loop"
    /\ si = Len(sdf)
    /\ conversations' = Save(conversations, current_conversation)
    /\ spc' = "done"
    /\ UNCHANGED <<sdf, gap_threshold_seconds, current_conversation,
                   last_end_time, si>>

(***************************************************************************)
(* Inputs of detect_conversation_boundaries                                *)
(***************************************************************************)

MaxSegSpans == 3

\* the default of gap_threshold_seconds and of --gap-threshold
DefaultGap == 300

\* start_time of row i when every row starts ds[j] seconds after the start
\* of the row before it
RECURSIVE StartAt(_, _)
StartAt(ds, i) == IF i = 0 THEN 0 ELSE StartAt(ds, i - 1) + ds[i]

\* Frames of n rows sorted by start_time as load_trace_data leaves them: the
\* first k rows have a start_time, the others NaT (sorted last); a row
\* starts 1, t + 1 or t + 2 seconds after the start of the row before it and
\* lasts 0 or 1 seconds, or has no end_time (dur = -1).
SegFrames(n, t) ==
    { [i \in 1..n |->
         [start_time |-> IF i <= k THEN StartAt(ds, i) ELSE 0,
          end_time   |-> IF dur[i] < 0 THEN 0 ELSE StartAt(ds, i) + dur[i]]] :
      ds \in [1..n -> {1, t + 1, t + 2}], dur \in [1..n -> {-1, 0, 1}], k \in 0..n }

SegInit ==
    /\ gap_threshold_seconds \in {2, DefaultGap}
    /\ \E n \in 0..MaxSegSpans : sdf \in SegFrames(n, gap_threshold_seconds)
    /\ conversations = <<>>
    /\ current_conversation = <<>>
    /\ last_end_time = NoneTime
    /\ si = 0
    /\ spc = "loop"

SegIdle ==
    /\ sdf = <<>>
    /\ gap_threshold_seconds = 0
    /\ conversations = <<>>
    /\ current_conversation = <<>>
    /\ last_end_time = NoneTime
    /\ si = 0
    /\ spc = "idle"

(***************************************************************************)
(* compare_messages and check_complete_containment (compare_spans.py)      *)
(*                                                                         *)
(* A message is a dict, given by its (key, value) pairs in insertion       *)
(* order, or a str. A message list is None or a list of messages.          *)
(***************************************************************************)

DictMsg(pairs) == [kind |-> "dict", pairs |-> pairs, text |-> ""]
StrMsg(text)   == [kind |-> "str", pairs |-> <<>>, text |-> text]

NoneList      == [none |-> TRUE, items |-> <<>>]
ListOf(items) == [none |-> FALSE, items |-> items]

\* `msg or []`
OrEmpty(msgs) == IF msgs.none \/ msgs.items = <<>> THEN <<>> ELSE msgs.items

\* Order of the keys that occur ('content' < 'role' by code point).
KeyRank(k) == CASE k = "content" -> 1 [] k = "role" -> 2 [] OTHER -> 0

\* insert a pair into a list of pairs sorted by key
RECURSIVE InsertByKey(_, _)
InsertByKey(ps, p) ==
    IF ps = <<>> THEN <<p>>
    ELSE IF KeyRank(Head(ps)[1]) <= KeyRank(p[1])
         THEN <<Head(ps)>> \o InsertByKey(Tail(ps), p)
         ELSE <<p>> \o ps

\* the pairs of a dict sorted by key (sort_keys=True)
RECURSIVE SortKeys(_)
SortKeys(ps) ==
    IF ps = <<>> THEN <<>>
    ELSE InsertByKey(SortKeys(SubSeq(ps, 1, Len(ps) - 1)), ps[Len(ps)])

\* the JSON text of a list of pairs, as a sequence of tokens
RECURSIVE JsonPairs(_)
JsonPairs(ps) ==
    IF ps = <<>> THEN <<>>
    ELSE <<Head(ps)[1], ":", Head(ps)[2]>>
         \o (IF Len(ps) > 1 THEN <<",">> ELSE <<>>)
         \o JsonPairs(Tail(ps))

\* json.dumps(m) without sort_keys: the pairs in insertion order.
JsonDumpsUnsorted(m) == <<"{">> \o JsonPairs(m.pairs) \o <<"}">>

\* json.dumps(m, sort_keys=True)
JsonDumps(m) == <<"{">> \o JsonPairs(SortKeys(m.pairs)) \o <<"}">>

\* `json.dumps(m, sort_keys=True) if isinstance(m, dict) else str(m)`
Canon(m) == IF m.kind = "dict" THEN JsonDumps(m) ELSE <<m.text>>

CanonList(msgs) == [i \in 1..Len(OrEmpty(msgs)) |-> Canon(OrEmpty(msgs)[i])]

\* `m in strs`
In(m, strs) == \E j \in 1..Len(strs) : strs[j] = m

\* [m for m in a if m in b] (keep = TRUE), [m for m in a if m not in b]
RECURSIVE Select(_, _, _)
Select(a, b, keep) ==
    IF a = <<>> THEN <<>>
    ELSE (IF In(Head(a), b) = keep THEN <<Head(a)>> ELSE <<>>)
         \o Select(Tail(a), b, keep)

\* The duplicates without repetition: list(set(duplicates)).
RECURSIVE DuplicatesDistinct(_, _)
DuplicatesDistinct(msg1_str, msg2_str) ==
    IF msg1_str = <<>> THEN <<>>
    ELSE LET rest == DuplicatesDistinct(Tail(msg1_str), msg2_str)
         IN  IF In(Head(msg1_str), msg2_str) /\ ~In(Head(msg1_str), rest)
             THEN <<Head(msg1_str)>> \o rest ELSE rest

\* The duplicates taken from the later list: [m for m in msg2_str if m in msg1_str].
DuplicatesOfLater(msg1_str, msg2_str) == Select(msg2_str, msg1_str, TRUE)

\* The membership test negated: [m for m in msg1_str if m not in msg2_str].
DuplicatesNegated(msg1_str, msg2_str) == Select(msg1_str, msg2_str, FALSE)

\* duplicates = [m for m in msg1_str if m in msg2_str]
Duplicates(msg1_str, msg2_str) == Select(msg1_str, msg2_str, TRUE)

\* new_msgs = [m for m in msg2_str if m not in msg1_str]
NewMsgs(msg1_str, msg2_str) == Select(msg2_str, msg1_str, FALSE)

\* A percentage count / total * 100 is kept as the fraction it is the value
\* of; the literal 0 of the else branch is 0 / 1.
Pct(count, total) == [num |-> count * 100, den |-> total]
Percent(n) == [num |-> n, den |-> 1]
PctZero == Percent(0)
PctEq(p, q) == p.num * q.den = q.num * p.den
PctLE(p, q) == p.num * q.den <= q.num * p.den

\* The overlap taken relative to the earlier list.
OverlapOfEarlier(duplicates, msg1_str, msg2_str) ==
    IF msg2_str # <<>> /\ msg1_str # <<>> THEN Pct(Len(duplicates), Len(msg1_str)) ELSE PctZero

\* overlap_pct = (len(duplicates) / len(msg2_str) * 100) if msg2_str else 0
OverlapPct(duplicates, msg1_str, msg2_str) ==
    IF msg2_str # <<>> THEN Pct(Len(duplicates), Len(msg2_str)) ELSE PctZero

NoComparison ==
    [tag |-> "pending", total_previous |-> 0, total_current |-> 0,
     duplicated_count |-> 0, new_count |-> 0, overlap_percentage |-> PctZero,
     duplicated_messages |-> <<>>, new_messages |-> <<>>]

compare_messages(msg1, msg2) ==
    LET msg1_str   == CanonList(msg1)
        msg2_str   == CanonList(msg2)
        duplicates == Duplicates(msg1_str, msg2_str)
        new_msgs   == NewMsgs(msg1_str, msg2_str)
    IN  [tag |-> "return",
         total_previous |-> Len(msg1_str),
         total_current |-> Len(msg2_str),
         duplicated_count |-> Len(duplicates),
         new_count |-> Len(new_msgs),
         overlap_percentage |-> OverlapPct(duplicates, msg1_str, msg2_str),
         duplicated_messages |-> duplicates,
         new_messages |-> new_msgs]

\* The subset flag without the test for a non-empty earlier list.
IsSubsetVacuously(missing, earlier_str) == Len(missing) = 0

\* is_complete_subset = len(missing) == 0 and len(earlier_str) > 0
IsCompleteSubset(missing, earlier_str) == Len(missing) = 0 /\ Len(earlier_str) > 0

\* The percentage over the distinct contained messages.
ContainmentOfDistinct(contained, earlier_str) ==
    IF earlier_str # <<>>
    THEN Pct(Cardinality({contained[i] : i \in 1..Len(contained)}), Len(earlier_str))
    ELSE PctZero

\* containment_pct = (len(contained) / len(earlier_str) * 100) if earlier_str else 0
ContainmentPct(contained, earlier_str) ==
    IF earlier_str # <<>> THEN Pct(Len(contained), Len(earlier_str)) ELSE PctZero

NoContainment ==
    [tag |-> "pending", is_complete_subset |-> FALSE, total_earlier |-> 0,
     contained_count |-> 0, missing_count |-> 0,
     containment_percentage |-> PctZero, missing_messages |-> <<>>]

check_complete_containment(earlier, later) ==
    LET earlier_str == CanonList(earlier)
        later_str   == CanonList(later)
        contained   == Select(earlier_str, later_str, TRUE)
        missing     == Select(earlier_str, later_str, FALSE)
    IN  [tag |-> "return",
         is_complete_subset |-> IsCompleteSubset(missing, earlier_str),
         total_earlier |-> Len(earlier_str),
         contained_count |-> Len(contained),
         missing_count |-> Len(missing),
         containment_percentage |-> ContainmentPct(contained, earlier_str),
         missing_messages |-> missing]

\* one call of compare_messages(earlier_msgs, later_msgs)
CompareMessages ==
    /\ cm_out.tag = "pending"
    /\ cm_out' = compare_messages(earlier_msgs, later_msgs)
    /\ UNCHANGED <<earlier_msgs, later_msgs, cc_out>>

\* one call of check_complete_containment(earlier_msgs, later_msgs)
CheckContainment ==
    /\ cc_out.tag = "pending"
    /\ cc_out' = check_complete_containment(earlier_msgs, later_msgs)
    /\ UNCHANGED <<earlier_msgs, later_msgs, cm_out>>

(***************************************************************************)
(* Inputs of the comparison                                                *)
(***************************************************************************)

MaxMsgs == 2

\* {"role": "user", "content": "hi"}
UserHi == DictMsg(<<<<"role", "user">>, <<"content", "hi">>>>)
\* {"content": "hi", "role": "user"}: the same record, keys in another order
UserHiReordered == DictMsg(<<<<"content", "hi">>, <<"role", "user">>>>)
\* {"role": "assistant", "content": "hello"}
AssistantHello == DictMsg(<<<<"role", "assistant">>, <<"content", "hello">>>>)

\* the messages of the lists: three records and the str 'hi'
Msgs == {UserHi, UserHiReordered, AssistantHello, StrMsg("hi")}

\* None and the lists of up to n messages
MsgLists(n) == {NoneList} \cup UNION {{ListOf(s) : s \in [1..k -> Msgs]} : k \in 0..n}

\* the lists of MaxMsgs messages followed by their first message once more
RepeatingLists == {ListOf(s \o <<s[1]>>) : s \in [1..MaxMsgs -> Msgs]}

CompareIdle ==
    /\ earlier_msgs = NoneList
    /\ later_msgs = NoneList
    /\ cm_out = NoComparison
    /\ cc_out = NoContainment

CompareInit ==
    /\ earlier_msgs \in MsgLists(MaxMsgs) \cup RepeatingLists
    /\ later_msgs \in MsgLists(MaxMsgs)
    /\ cm_out = NoComparison
    /\ cc_out = NoContainment

(***************************************************************************)
(* AnthropicModelInfo.validate_environment and get_anthropic_headers       *)
(* (common_utils.py)                                                       *)
(*                                                                         *)
(* A str is a sequence of characters; NoneStr is None and, as the value of *)
(* a header, a key the dict does not have. The value of 'anthropic-beta'   *)
(* is the set of the names it separates with commas (the order in which    *)
(* ",".join writes a set is not fixed); the empty set is a missing key.    *)
(***************************************************************************)

NoneStr == <<"None">>

BearerPrefix == <<"B", "e", "a", "r", "e", "r", " ">>
OAuthPrefix  == <<"s", "k", "-", "a", "n", "t", "-", "o", "a", "t">>

\* truth value of an Optional[str]
StrTruthy(s) == s # NoneStr /\ s # <<>>

\* s.startswith(p)
StartsWith(s, p) == Len(s) >= Len(p) /\ SubSeq(s, 1, Len(p)) = p

\* s.replace(p, "")
RECURSIVE RemoveAll(_, _)
RemoveAll(s, p) ==
    IF Len(s) < Len(p) THEN s
    ELSE IF SubSeq(s, 1, Len(p)) = p THEN RemoveAll(Tail_(s, Len(p) + 1), p)
    ELSE <<Head(s)>> \o RemoveAll(Tail(s), p)

HeaderDict(lower, upper, key, beta) ==
    [authorization |-> lower, Authorization |-> upper, x_api_key |-> key,
     anthropic_beta |-> beta, anthropic_version |-> NoneStr,
     accept |-> NoneStr, content_type |-> NoneStr]

detect_oauth_token(auth_header) ==
    /\ StartsWith(auth_header, BearerPrefix)
    /\ StartsWith(RemoveAll(auth_header, BearerPrefix), OAuthPrefix)

\* The pass-through taken as enabled whatever litellm_params holds.
PassThroughAssumed(litellm_params) == TRUE

\* `litellm_params.get("oauth_pass_through", False)` of extract_oauth_from_request
PassThroughEnabled(litellm_params) == litellm_params.oauth_pass_through

extract_oauth_from_request(request_headers, litellm_params) ==
    IF ~PassThroughEnabled(litellm_params) THEN NoneStr
    ELSE
      LET auth_header == IF StrTruthy(request_headers.authorization)
                         THEN request_headers.authorization
                         ELSE IF request_headers.Authorization = NoneStr THEN <<>>
                         ELSE request_headers.Authorization
      IN  IF detect_oauth_token(auth_header)
          THEN RemoveAll(auth_header, BearerPrefix)
          ELSE NoneStr

\* The names get_anthropic_headers collects in betas. f holds the results
\* of is_cache_control_set, is_computer_tool_used, is_file_id_used and
\* is_mcp_server_used; user is the list of the user's names or None.
Betas(f, oauth_token, user) ==
    (IF f.prompt_caching_set THEN {"prompt-caching-2024-07-31"} ELSE {})
    \cup (IF f.computer_tool_used THEN {"computer-use-2024-10-22"} ELSE {})
    \cup (IF f.file_id_used
          THEN {"files-api-2025-04-14", "code-execution-2025-05-22"} ELSE {})
    \cup (IF f.mcp_server_used THEN {"mcp-client-2025-04-04"} ELSE {})
    \cup (IF StrTruthy(oauth_token)
          THEN {"oauth-2025-04-20", "claude-code-20250219",
                "interleaved-thinking-2025-05-14",
                "fine-grained-tool-streaming-2025-05-14"}
          ELSE {})
    \cup (IF user.none THEN {} ELSE user.items)

get_anthropic_headers(api_key, f, is_vertex_request, user, oauth_token) ==
    [authorization |-> IF StrTruthy(oauth_token)
                       THEN BearerPrefix \o oauth_token ELSE NoneStr,
     Authorization |-> NoneStr,
     x_api_key |-> IF StrTruthy(oauth_token) THEN NoneStr ELSE api_key,
     anthropic_beta |-> IF is_vertex_request THEN {}
                        ELSE Betas(f, oauth_token, user),
     anthropic_version |-> <<"2023-06-01">>,
     accept |-> <<"application/json">>,
     content_type |-> <<"application/json">>]

\* _get_user_anthropic_beta_headers(headers.get("anthropic-beta"))
UserBetas(headers) ==
    IF headers.anthropic_beta = {} THEN [none |-> TRUE, items |-> {}]
    ELSE [none |-> FALSE, items |-> headers.anthropic_beta]

\* {**headers, **anthropic_headers}
Merge(headers, over) ==
    [authorization |-> IF over.authorization # NoneStr
                       THEN over.authorization ELSE headers.authorization,
     Authorization |-> headers.Authorization,
     x_api_key |-> IF over.x_api_key # NoneStr THEN over.x_api_key ELSE headers.x_api_key,
     anthropic_beta |-> IF over.anthropic_beta # {}
                        THEN over.anthropic_beta ELSE headers.anthropic_beta,
     anthropic_version |-> over.anthropic_version,
     accept |-> over.accept,
     content_type |-> over.content_type]

NoOutcome ==
    [tag |-> "pending", oauth_token |-> NoneStr,
     anthropic_headers |-> HeaderDict(NoneStr, NoneStr, NoneStr, {}),
     headers |-> HeaderDict(NoneStr, NoneStr, NoneStr, {})]

\* validate_environment(headers, model, messages, optional_params,
\* litellm_params, api_key): rq holds the arguments, rq.flags the results
\* of the is_..._used methods on messages and optional_params.
validate_environment(rq) ==
    LET lp       == rq.litellm_params
        is_oauth == StrTruthy(rq.api_key) /\ StartsWith(rq.api_key, OAuthPrefix)
        api_key  == IF is_oauth THEN NoneStr ELSE rq.api_key
        request_headers ==
            IF lp.proxy_server_request.kind # "absent" THEN lp.proxy_server_request
            ELSE IF lp.secret_fields.kind # "absent" THEN lp.secret_fields
            ELSE [kind |-> "empty", authorization |-> NoneStr, Authorization |-> NoneStr]
        oauth_token ==
            IF is_oauth THEN rq.api_key
            ELSE IF lp.oauth_pass_through /\ StrTruthy(lp.oauth_token) THEN lp.oauth_token
            ELSE IF lp.oauth_pass_through
                 THEN extract_oauth_from_request(rq.headers, lp)
            ELSE IF request_headers.kind = "dict"
                 THEN extract_oauth_from_request(request_headers, lp)
            ELSE NoneStr
        anthropic_headers ==
            get_anthropic_headers(IF api_key = NoneStr THEN <<>> ELSE api_key,
                                  rq.flags, rq.is_vertex_request,
                                  UserBetas(rq.headers), oauth_token)
    IN  IF oauth_token = NoneStr /\ api_key = NoneStr
        THEN [NoOutcome EXCEPT !.tag = "raise"]
        ELSE [tag |-> "return", oauth_token |-> oauth_token,
              anthropic_headers |-> anthropic_headers,
              headers |-> Merge(rq.headers, anthropic_headers)]

\* one call of validate_environment on the request
ValidateEnvironment ==
    /\ ve_out.tag = "pending"
    /\ ve_out' = validate_environment(request)
    /\ UNCHANGED request

(***************************************************************************)
(* Inputs of validate_environment                                          *)
(***************************************************************************)

\* the request headers a proxy hands over: none, an empty dict, or a dict
\* with an OAuth bearer token ('sk-ant-oat' followed by one character
\* naming where the token was put)
ProxiedHeaders ==
    { [kind |-> "absent", authorization |-> NoneStr, Authorization |-> NoneStr],
      [kind |-> "empty", authorization |-> NoneStr, Authorization |-> NoneStr],
      [kind |-> "dict", authorization |-> BearerPrefix \o (OAuthPrefix \o <<"R">>),
       Authorization |-> NoneStr] }

Requests ==
    [ api_key : {NoneStr, <<>>, <<"s", "k", "-", "1">>, (OAuthPrefix \o <<"A">>)},
      headers : { HeaderDict(lower, upper, NoneStr, beta) :
                    lower \in {NoneStr, BearerPrefix \o (OAuthPrefix \o <<"H">>),
                               BearerPrefix \o <<"s", "k", "-", "1">>},
                    upper \in {NoneStr, BearerPrefix \o (OAuthPrefix \o <<"U">>)},
                    beta \in {{}, {"user-beta"}} },
      litellm_params : [ oauth_pass_through : BOOLEAN,
                         oauth_token : {NoneStr, (OAuthPrefix \o <<"P">>)},
                         proxy_server_request : ProxiedHeaders,
                         secret_fields : {h \in ProxiedHeaders : h.kind # "empty"} ],
      is_vertex_request : BOOLEAN,
      flags : [ prompt_caching_set : BOOLEAN, computer_tool_used : BOOLEAN,
                file_id_used : BOOLEAN, mcp_server_used : BOOLEAN ] ]

\* no call of validate_environment is under way
AuthIdle ==
    /\ request =
          [api_key |-> NoneStr, headers |-> HeaderDict(NoneStr, NoneStr, NoneStr, {}),
           litellm_params |-> [oauth_pass_through |-> FALSE, oauth_token |-> NoneStr,
                               proxy_server_request |-> CHOOSE h \in ProxiedHeaders : h.kind = "absent",
                               secret_fields |-> CHOOSE h \in ProxiedHeaders : h.kind = "absent"],
           is_vertex_request |-> FALSE,
           flags |-> [prompt_caching_set |-> FALSE, computer_tool_used |-> FALSE,
                      file_id_used |-> FALSE, mcp_server_used |-> FALSE]]
    /\ ve_out = NoOutcome

AuthInit ==
    /\ request \in Requests
    /\ ve_out = NoOutcome

(***************************************************************************)
(* main of reconstruct_sessions.py                                         *)
(*                                                                         *)
(* A row of the frame is [span_id, trace_id, parent_id, start_time,        *)
(* end_time]; the times are whole seconds, 0 being a cell that             *)
(* pd.to_datetime(errors='coerce') turns into NaT. The frame is the        *)
(* variable df, which main hands to both reconstructions.                  *)
(***************************************************************************)

\* conversations[:10] of reconstruct_by_time_windows
ConversationLimit == 10

\* args after parse_args() when --method is given as opt ("" when it is
\* not given: the default 'both'), the other options at their defaults
ParseArgs(opt) ==
    [method_option |-> opt,
     method        |-> IF opt = "" THEN "both" ELSE opt,
     gap_threshold |-> DefaultGap,
     trace_limit   |-> TraceLimit]

\* The frames df.sort_values('start_time') can give: ascending start_time,
\* NaT last in the order of the frame; the default kind is quicksort, which
\* does not fix the order of rows with equal start_time.
SortValues(d) ==
    { [k \in 1..Len(d) |-> d[p[k]]] :
        p \in { q \in [1..Len(d) -> 1..Len(d)] :
                  /\ \A i, j \in 1..Len(d) : q[i] = q[j] => i = j
                  /\ \A k \in 1..(Len(d) - 1) :
                        /\ TimeLE(d[q[k]].start_time, d[q[k + 1]].start_time)
                        /\ (IsNa(d[q[k]].start_time) /\ IsNa(d[q[k + 1]].start_time))
                              => q[k] < q[k + 1] } }

\* `df = load_trace_data(args.input_file)`
MLoad ==
    /\ mpc = "start"
    /\ df' \in SortValues(df)
    /\ mpc' = "loaded"
    /\ UNCHANGED <<args, limit, trace_ids, ti, trace_df, roots, stack, out, tpc, segVars>>

\* `if args.method in ['trace', 'both']: reconstruct_by_trace_id(df, limit=args.trace_limit)`
MTrace ==
    /\ mpc = "loaded"
    /\ IF args.method \in {"trace", "both"}
       THEN /\ tpc' = "start"
            /\ limit' = args.trace_limit
            /\ mpc' = "trace"
       ELSE /\ mpc' = "traced"
            /\ UNCHANGED <<tpc, limit>>
    /\ UNCHANGED <<args, df, trace_ids, ti, trace_df, roots, stack, out, segVars>>

\* `if args.method in ['time', 'both']: reconstruct_by_time_windows(df, ...)`,
\* up to its call of detect_conversation_boundaries
MTime ==
    /\ mpc = "traced" \/ (mpc = "trace" /\ tpc = "done")
    /\ IF args.method \in {"time", "both"}
       THEN /\ sdf' = df
            /\ gap_threshold_seconds' = args.gap_threshold
            /\ spc' = "loop"
            /\ mpc' = "time"
       ELSE /\ mpc' = "exit"
            /\ UNCHANGED <<sdf, gap_threshold_seconds, spc>>
    /\ UNCHANGED <<args, treeVars, conversations, current_conversation,
                   last_end_time, si>>

\* The rest of reconstruct_by_time_windows: one CONVERSATION block is
\* printed for each of conversations[:10]; main returns.
MWindows ==
    /\ mpc = "time"
    /\ spc = "done"
    /\ out' = out \o [k \in 1..Min({Len(conversations), ConversationLimit}) |->
                        Line("conversation", "", 0, 0, 0, conversations[k])]
    /\ mpc' = "exit"
    /\ UNCHANGED <<args, df, limit, trace_ids, ti, trace_df, roots, stack, tpc, segVars>>

(***************************************************************************)
(* Inputs of main                                                          *)
(***************************************************************************)

MaxMainSpans == 2

\* The frames read_json gives (rows in file order): spans of trace 'T1'
\* with a null parent or the first span as parent; a start_time of 1, 2 or
\* more than the default threshold later, or none; an end_time equal to
\* the start_time, or none.
MainFrames ==
    UNION { { [i \in 1..n |-> [span_id |-> i, trace_id |-> "T1", parent_id |-> pa[i],
                               start_time |-> st[i],
                               end_time |-> IF en[i] THEN st[i] ELSE 0]] :
              pa \in [1..n -> 0..1], st \in [1..n -> {0, 1, 2, DefaultGap + 3}],
              en \in [1..n -> BOOLEAN] } : n \in 0..MaxMainSpans }

MainIdle ==
    /\ args = ParseArgs("")
    /\ mpc = "idle"

(***************************************************************************)
(* Components at rest (a specification exercises one component at a time)  *)
(***************************************************************************)

GroupIdle ==
    /\ gdf = <<>>
    /\ gcol = FALSE
    /\ gsid = <<>>
    /\ grouped = <<>>
    /\ gkeys = <<>>
    /\ gpc = "idle"

TreeIdle ==
    /\ df = <<>>
    /\ limit = 0
    /\ trace_ids = <<>>
    /\ ti = 0
    /\ trace_df = <<>>
    /\ roots = <<>>
    /\ stack = <<>>
    /\ out = <<>>
    /\ tpc = "idle"

(***************************************************************************)
(* The resolver on its own                                                 *)
(***************************************************************************)

InitResolver == ResolverInit /\ GroupIdle /\ TreeIdle /\ SegIdle /\ CompareIdle
    /\ MainIdle /\ AuthIdle

NextResolver ==
    \/ QtExtract /\ UNCHANGED groupVars /\ UNCHANGED treeVars
           /\ UNCHANGED segVars /\ UNCHANGED compareVars
           /\ UNCHANGED <<mainVars, authVars>>
    \/ RsExtract /\ UNCHANGED groupVars /\ UNCHANGED treeVars
           /\ UNCHANGED segVars /\ UNCHANGED compareVars
           /\ UNCHANGED <<mainVars, authVars>>

SpecResolver == InitResolver /\ [][NextResolver]_vars

(***************************************************************************)
(* group_by_session on its own                                             *)
(***************************************************************************)

InitGroup == ResolverIdle /\ GroupInit /\ TreeIdle /\ SegIdle /\ CompareIdle
    /\ MainIdle /\ AuthIdle

NextGroup ==
    \/ GApply /\ UNCHANGED resolverVars /\ UNCHANGED treeVars
           /\ UNCHANGED segVars /\ UNCHANGED compareVars
           /\ UNCHANGED <<mainVars, authVars>>
    \/ GLoop /\ UNCHANGED resolverVars /\ UNCHANGED treeVars
           /\ UNCHANGED segVars /\ UNCHANGED compareVars
           /\ UNCHANGED <<mainVars, authVars>>
    \/ GReturn /\ UNCHANGED resolverVars /\ UNCHANGED treeVars
           /\ UNCHANGED segVars /\ UNCHANGED compareVars
           /\ UNCHANGED <<mainVars, authVars>>

SpecGroup == InitGroup /\ [][NextGroup]_vars

(***************************************************************************)
(* reconstruct_by_trace_id on its own                                      *)
(***************************************************************************)

InitTree == ResolverIdle /\ GroupIdle /\ TreeInit /\ SegIdle /\ CompareIdle
    /\ MainIdle /\ AuthIdle

NextTree ==
    \/ TStart /\ UNCHANGED resolverVars /\ UNCHANGED groupVars
           /\ UNCHANGED segVars /\ UNCHANGED compareVars
           /\ UNCHANGED <<mainVars, authVars>>
    \/ TNextTrace /\ UNCHANGED resolverVars /\ UNCHANGED groupVars
           /\ UNCHANGED segVars /\ UNCHANGED compareVars
           /\ UNCHANGED <<mainVars, authVars>>
    \/ TRoot /\ UNCHANGED resolverVars /\ UNCHANGED groupVars
           /\ UNCHANGED segVars /\ UNCHANGED compareVars
           /\ UNCHANGED <<mainVars, authVars>>
    \/ BChild /\ UNCHANGED resolverVars /\ UNCHANGED groupVars
           /\ UNCHANGED segVars /\ UNCHANGED compareVars
           /\ UNCHANGED <<mainVars, authVars>>
    \/ BReturn /\ UNCHANGED resolverVars /\ UNCHANGED groupVars
           /\ UNCHANGED segVars /\ UNCHANGED compareVars
           /\ UNCHANGED <<mainVars, authVars>>
    \/ TDone /\ UNCHANGED resolverVars /\ UNCHANGED groupVars
           /\ UNCHANGED segVars /\ UNCHANGED compareVars
           /\ UNCHANGED <<mainVars, authVars>>

SpecTree == InitTree /\ [][NextTree]_vars

(***************************************************************************)
(* detect_conversation_boundaries on its own                               *)
(***************************************************************************)

InitSegment == ResolverIdle /\ GroupIdle /\ TreeIdle /\ SegInit /\ CompareIdle
    /\ MainIdle /\ AuthIdle

NextSegment ==
    \/ SegRow /\ UNCHANGED <<resolverVars, groupVars, treeVars, compareVars, mainVars, authVars>>
    \/ SegReturn /\ UNCHANGED <<resolverVars, groupVars, treeVars, compareVars, mainVars, authVars>>

SpecSegment == InitSegment /\ [][NextSegment]_vars

(***************************************************************************)
(* compare_messages and check_complete_containment on their own            *)
(***************************************************************************)

InitCompare == ResolverIdle /\ GroupIdle /\ TreeIdle /\ SegIdle /\ CompareInit
    /\ MainIdle /\ AuthIdle

NextCompare ==
    \/ CompareMessages /\ UNCHANGED <<resolverVars, groupVars, treeVars, segVars, mainVars, authVars>>
    \/ CheckContainment /\ UNCHANGED <<resolverVars, groupVars, treeVars, segVars, mainVars, authVars>>

SpecCompare == InitCompare /\ [][NextCompare]_vars

(***************************************************************************)
(* One trace of five spans through group_by_session and                    *)
(* reconstruct_by_trace_id                                                 *)
(***************************************************************************)

\* Spans 1..5 of trace 'T1': spans 1-3 have a null parent_id, spans 4 and 5
\* have span 2 as their parent; st gives the start times.
FiveSpans(st) ==
    [i \in 1..5 |-> [span_id |-> i, trace_id |-> "T1",
                     parent_id |-> IF i <= 3 THEN 0 ELSE 2,
                     start_time |-> st[i]]]

\* df.sort_values('start_time') of load_trace_data
Loaded(spans) ==
    LET order == SortByStart(spans, AllPositions(spans))
    IN  [k \in 1..Len(spans) |-> spans[order[k]]]

\* metadata cells without a session id: None, {} and a dict of other keys
NoSessionMetas ==
    { Meta("none", 0, PyAbsent, PyAbsent, NoReq, FALSE),
      EmptyDict,
      Meta("dict", 0, PyAbsent, PyAbsent, NoReq, TRUE) }

InitFiveSpans ==
    /\ ResolverIdle
    /\ SegIdle
    /\ CompareIdle
    /\ MainIdle
    /\ AuthIdle
    /\ gcol = TRUE
    /\ \E m \in NoSessionMetas : gdf = [i \in 1..5 |-> Row(m, PyStr(T1), TRUE)]
    /\ gsid = <<>>
    /\ grouped = <<>>
    /\ gkeys = <<>>
    /\ gpc = "start"
    /\ \E st \in [1..5 -> 1..3] : df = Loaded(FiveSpans(st))
    /\ limit = TraceLimit
    /\ trace_ids = <<>>
    /\ ti = 0
    /\ trace_df = <<>>
    /\ roots = <<>>
    /\ stack = <<>>
    /\ out = <<>>
    /\ tpc = "start"

NextFiveSpans ==
    \/ GApply /\ UNCHANGED <<resolverVars, treeVars, segVars, compareVars, mainVars, authVars>>
    \/ GLoop /\ UNCHANGED <<resolverVars, treeVars, segVars, compareVars, mainVars, authVars>>
    \/ GReturn /\ UNCHANGED <<resolverVars, treeVars, segVars, compareVars, mainVars, authVars>>
    \/ TStart /\ UNCHANGED <<resolverVars, groupVars, segVars, compareVars, mainVars, authVars>>
    \/ TNextTrace /\ UNCHANGED <<resolverVars, groupVars, segVars, compareVars, mainVars, authVars>>
    \/ TRoot /\ UNCHANGED <<resolverVars, groupVars, segVars, compareVars, mainVars, authVars>>
    \/ BChild /\ UNCHANGED <<resolverVars, groupVars, segVars, compareVars, mainVars, authVars>>
    \/ BReturn /\ UNCHANGED <<resolverVars, groupVars, segVars, compareVars, mainVars, authVars>>
    \/ TDone /\ UNCHANGED <<resolverVars, groupVars, segVars, compareVars, mainVars, authVars>>

SpecFiveSpans == InitFiveSpans /\ [][NextFiveSpans]_vars

(***************************************************************************)
(* group_by_session on a frame with a start_time column                    *)
(***************************************************************************)

\* Frames of up to MaxRows rows as a Phoenix query returns them (in no
\* particular order): every row carries a session id under user_id or
\* under user_api_key_end_user_id and a start_time (0 being NaT).
InitSessionOrder ==
    /\ ResolverIdle /\ TreeIdle /\ SegIdle /\ CompareIdle /\ MainIdle /\ AuthIdle
    /\ gcol = TRUE
    /\ \E n \in 0..MaxRows :
         gdf \in [1..n ->
                    { [metadata |-> m, trace_id |-> PyStr(T1), has_col |-> TRUE,
                       start_time |-> s] :
                      m \in { DictWith(PyStr(Abc42), PyAbsent),
                              DictWith(PyAbsent, PyStr(Chars(<<>>, <<"X">>))) },
                      s \in 0..2 }]
    /\ gsid = <<>>
    /\ grouped = <<>>
    /\ gkeys = <<>>
    /\ gpc = "start"

SpecSessionOrder == InitSessionOrder /\ [][NextGroup]_vars

(***************************************************************************)
(* validate_environment on its own                                         *)
(***************************************************************************)

InitAuth == ResolverIdle /\ GroupIdle /\ TreeIdle /\ SegIdle /\ CompareIdle
            /\ MainIdle /\ AuthInit

NextAuth ==
    ValidateEnvironment
        /\ UNCHANGED <<resolverVars, groupVars, treeVars, segVars, compareVars, mainVars>>

SpecAuth == InitAuth /\ [][NextAuth]_vars

(***************************************************************************)
(* main of reconstruct_sessions.py: load, trace reconstruction, time       *)
(* windows                                                                 *)
(***************************************************************************)

InitMain ==
    /\ ResolverIdle /\ GroupIdle /\ CompareIdle /\ AuthIdle /\ SegIdle
    /\ args \in {ParseArgs(opt) : opt \in {"", "trace", "time", "both"}}
    /\ mpc = "start"
    /\ df \in MainFrames
    /\ limit = 0
    /\ trace_ids = <<>>
    /\ ti = 0
    /\ trace_df = <<>>
    /\ roots = <<>>
    /\ stack = <<>>
    /\ out = <<>>
    /\ tpc = "idle"

NextMain ==
    \/ MLoad /\ UNCHANGED <<resolverVars, groupVars, compareVars, authVars>>
    \/ MTrace /\ UNCHANGED <<resolverVars, groupVars, compareVars, authVars>>
    \/ TStart /\ UNCHANGED <<resolverVars, groupVars, segVars, compareVars, mainVars, authVars>>
    \/ TNextTrace /\ UNCHANGED <<resolverVars, groupVars, segVars, compareVars, mainVars, authVars>>
    \/ TRoot /\ UNCHANGED <<resolverVars, groupVars, segVars, compareVars, mainVars, authVars>>
    \/ BChild /\ UNCHANGED <<resolverVars, groupVars, segVars, compareVars, mainVars, authVars>>
    \/ BReturn /\ UNCHANGED <<resolverVars, groupVars, segVars, compareVars, mainVars, authVars>>
    \/ TDone /\ UNCHANGED <<resolverVars, groupVars, segVars, compareVars, mainVars, authVars>>
    \/ MTime /\ UNCHANGED <<resolverVars, groupVars, compareVars, authVars>>
    \/ SegRow /\ UNCHANGED <<resolverVars, groupVars, treeVars, compareVars, mainVars, authVars>>
    \/ SegReturn /\ UNCHANGED <<resolverVars, groupVars, treeVars, compareVars, mainVars, authVars>>
    \/ MWindows /\ UNCHANGED <<resolverVars, groupVars, compareVars, authVars>>

SpecMain == InitMain /\ [][NextMain]_vars

(***************************************************************************)
(* Claims about the resolver (SpecResolver)                                *)
(***************************************************************************)

\* The three keys in the order the contract gives them.
KeyOrder == <<"user_id", "user_api_key_end_user_id", "requester_metadata.user_id">>

\* The value a metadata dict holds under a key (None when there is none).
KeyValue(m, key) ==
    CASE key = "user_id" -> DictGet(m.user_id)
      [] key = "user_api_key_end_user_id" -> DictGet(m.end_user)
      [] OTHER -> IF m.req.kind = "dict" THEN DictGet(m.req.user_id) ELSE PyNone

\* The stringified value under the key contains 'session_'.
KeyHolds(m, key) == StrContains(Str(KeyValue(m, key)), SessionPat)

\* Everything after the last place where 'session_' occurs in s.
AfterLastOcc(s) == Tail_(s, Max(Occurrences(s, SessionPat)) + Len(SessionPat))

HoldingKeys(m) == {i \in 1..3 : KeyHolds(m, KeyOrder[i])}

IsMapping(m) == m.kind = "dict" /\ m # EmptyDict

\* C3: query_traces.extract_session_id answers from the first of user_id,
\* user_api_key_end_user_id, requester_metadata.user_id whose stringified
\* value contains 'session_'; a later key decides only when no earlier key
\* holds such a value, and the trace-id fallback only when none does.
C3_FirstMatchWins ==
    (qt_out.tag # "pending" /\ IsMapping(row.metadata)) =>
        LET m == row.metadata
            h == HoldingKeys(m)
        IN  /\ qt_out.tag = "return"
            /\ IF h = {} THEN qt_out.via = "fallback"
               ELSE /\ qt_out.via = KeyOrder[Min(h)]
                    /\ qt_out.val =
                         PyStr(AfterLastOcc(Str(KeyValue(m, KeyOrder[Min(h)]))))

\* C3 witness: two keys hold a session value and the resolver has answered
\* from the earlier one.
C3_Witness ==
    /\ qt_out.tag = "return"
    /\ IsMapping(row.metadata)
    /\ {2, 3} \subseteq HoldingKeys(row.metadata)
    /\ 1 \notin HoldingKeys(row.metadata)
    /\ qt_out.via = "user_api_key_end_user_id"

\* C4: when a resolver answers from a key, the answer is exactly the text
\* after the last 'session_' of that key's value ('abc_session_42' gives
\* '42'); when nothing follows, the answer is the empty string, a str and
\* not None.
C4_TextAfterLastOccurrence ==
    /\ (qt_out.tag = "return" /\ qt_out.via # "fallback") =>
          LET s == Str(KeyValue(row.metadata, qt_out.via))
          IN  /\ qt_out.val.kind = "str"
              /\ s = SubSeq(s, 1, Len(s) - Len(qt_out.val.chars)) \o qt_out.val.chars
              /\ SubSeq(s, Len(s) - Len(qt_out.val.chars) - Len(SessionPat) + 1,
                           Len(s) - Len(qt_out.val.chars)) = SessionPat
              /\ ~StrContains(qt_out.val.chars, SessionPat)
              /\ qt_out.val.chars = AfterLastOcc(s)
              /\ (s = Abc42 => qt_out.val.chars = <<"4", "2">>)
    /\ (rs_out.tag = "return" /\ rs_out.via # "none") =>
          LET s == Str(KeyValue(row.metadata, rs_out.via))
          IN  /\ rs_out.val.kind = "str"
              /\ rs_out.val.chars = AfterLastOcc(s)
              /\ (s = Abc42 => rs_out.val.chars = <<"4", "2">>)

\* C4 witness: both resolvers answered from a value that ends in
\* 'session_' and the answer is the empty str.
C4_Witness ==
    /\ qt_out.tag = "return" /\ qt_out.via = "user_id"
    /\ KeyValue(row.metadata, "user_id") = PyStr(SessionPat)
    /\ qt_out.val = PyStr(<<>>)
    /\ rs_out.tag = "return" /\ rs_out.via = "requester_metadata.user_id"
    /\ rs_out.val = PyStr(<<>>)

\* C5: with metadata that is None/NaN, not a mapping or an empty mapping,
\* and with a mapping none of whose three keys holds a value containing
\* 'session_', the resolver's result is absent: None from
\* reconstruct_sessions.extract_session_id, the trace-id fallback from
\* query_traces.extract_session_id.
C5_AbsentWithoutSessionValue ==
    (~IsMapping(row.metadata) \/ HoldingKeys(row.metadata) = {}) =>
        /\ qt_out.tag # "pending" =>
              (qt_out.tag = "return" /\ qt_out.via = "fallback")
        /\ rs_out.tag # "pending" =>
              (rs_out.tag = "return" /\ rs_out.val = PyNone)

\* C6: whatever the types of the candidate values of a metadata mapping,
\* neither resolver raises, a value whose string form contains 'session_'
\* is recognised, and a requester_metadata that is not a mapping is
\* skipped.
C6_NeverRaises ==
    row.metadata.kind = "dict" =>
        /\ qt_out.tag # "raise"
        /\ rs_out.tag # "raise"
        /\ (qt_out.tag = "return" /\ row.metadata.req.kind # "dict") =>
              qt_out.via # "requester_metadata.user_id"
        /\ (rs_out.tag = "return" /\ row.metadata.req.kind # "dict") =>
              rs_out.via # "requester_metadata.user_id"
        /\ (rs_out.tag = "return" /\ KeyHolds(row.metadata, KeyOrder[2])) =>
              rs_out.via = KeyOrder[2]

(***************************************************************************)
(* Claims about group_by_session (SpecGroup)                               *)
(***************************************************************************)

\* The number of places a row position takes in the returned groups.
RECURSIVE Count(_, _)
Count(s, x) ==
    IF s = <<>> THEN 0 ELSE (IF Head(s) = x THEN 1 ELSE 0) + Count(Tail(s), x)

RECURSIVE SumOver(_, _)
SumOver(gs, x) ==
    IF gs = <<>> THEN 0 ELSE Count(Head(gs).rows, x) + SumOver(Tail(gs), x)

\* C1: when group_by_session returns, every input row is in exactly one
\* returned group, rows without metadata and rows with a null or missing
\* trace id included.
C1_EveryRowInExactlyOneGroup ==
    gpc = "done" => \A i \in 1..Len(gdf) : SumOver(grouped, i) = 1

\* The Session-ID Resolver's result for a metadata cell, as the contract
\* states it: the text after the last 'session_' of the first key that
\* holds one, absent otherwise.
ResolverResult(m) ==
    IF IsMapping(m) /\ HoldingKeys(m) # {}
    THEN PyStr(AfterLastOcc(Str(KeyValue(m, KeyOrder[Min(HoldingKeys(m))]))))
    ELSE PyNone

\* C2: the session key of every row is the resolver's result when that is
\* present and not the empty string and the row's trace id otherwise, and
\* the group a row lands in carries that key.
C2_KeyIsResolverResultElseTraceId ==
    gpc \in {"loop", "done"} =>
        \A i \in 1..Len(gdf) :
            LET r == ResolverResult(gdf[i].metadata)
                k == IF r # PyNone /\ r.chars # <<>> THEN r ELSE TraceFallback(gdf[i])
            IN  /\ gsid[i] = k
                /\ \A g \in 1..Len(grouped) :
                      Count(grouped[g].rows, i) > 0 => grouped[g].key = Str(k)

(***************************************************************************)
(* Claims about reconstruct_by_trace_id / build_span_tree (SpecTree)       *)
(***************************************************************************)

\* the header lines printed so far: one per trace group
TraceLines == {k \in 1..Len(out) : out[k].role = "trace"}

\* the ROOT and child lines printed so far for the span at position i
SpanLines(i) ==
    {k \in 1..Len(out) : out[k].role \in {"root", "child"} /\ out[k].span = df[i].span_id}

InRows(rws, i) == \E k \in 1..Len(rws) : rws[k] = i

\* C7: grouping by trace id partitions the input: when the function is
\* through, every span is in exactly one group, once, the group is keyed by
\* the span's trace id ('unknown' for a missing one) and keeps the input
\* order, and no error is raised for a missing trace id.
C7_TraceGroupsPartitionInput ==
    /\ tpc # "raised"
    /\ tpc = "done" =>
          \A i \in 1..Len(df) :
              /\ Cardinality({k \in TraceLines : InRows(out[k].rows, i)}) = 1
              /\ \A k \in TraceLines :
                    InRows(out[k].rows, i) =>
                       /\ Count(out[k].rows, i) = 1
                       /\ out[k].trace =
                             (IF df[i].trace_id = "" THEN "unknown" ELSE df[i].trace_id)
                       /\ \A a, b \in 1..Len(out[k].rows) :
                             a < b => out[k].rows[a] < out[k].rows[b]

\* C8: when the function is through, every span of every group it printed
\* appears exactly once in that group's forest, as a root or as a child.
C8_EverySpanOnceInForest ==
    tpc = "done" =>
        \A k \in TraceLines : \A i \in 1..Len(df) :
            InRows(out[k].rows, i) => Cardinality(SpanLines(i)) = 1

\* the parent_id of the span at position i names another span of the group
ResolvesIn(rws, i) ==
    \E j \in 1..Len(df) :
        j # i /\ InRows(rws, j) /\ df[j].span_id = df[i].parent_id

\* C9: when the function is through, a span of a printed group is a root of
\* the forest exactly when its parent_id is null or names no other span of
\* the group, and every other span is printed as a child of the span its
\* parent_id names; none is left out.
C9_RootIffParentUnresolved ==
    tpc = "done" =>
        \A k \in TraceLines : \A i \in 1..Len(df) :
            InRows(out[k].rows, i) =>
                IF IsNa(df[i].parent_id) \/ ~ResolvesIn(out[k].rows, i)
                THEN \E l \in SpanLines(i) : out[l].role = "root"
                ELSE /\ \E l \in SpanLines(i) :
                           out[l].role = "child" /\ out[l].parent = df[i].parent_id
                     /\ \A l \in SpanLines(i) : out[l].role = "child"

\* positions of the current trace that have no line yet
Unprinted == {k \in 1..Len(trace_df) : SpanLines(trace_df[k]) = {}}

\* A bound on the steps reconstruct_by_trace_id can still take: every step
\* of the trace loop, the root loop and the recursion lowers it.
Variant ==
    LET w == 3 * Len(df) + 1
    IN  CASE tpc = "start"  -> 2 + w * (Len(df) + 1)
          [] tpc = "traces" -> 1 + w * (Shown - ti) + Len(roots)
                                 + 2 * Cardinality(Unprinted) + Len(stack)
          [] OTHER          -> 0

\* C10: tree construction terminates on every finite frame, cyclic and
\* self-referring parent_ids included: no span is printed twice, no span is
\* twice on the active recursion path, the recursion is never deeper than
\* the frame is long, and every step lowers a natural-number bound on the
\* steps that remain.
C10_TreeConstructionTerminates ==
    /\ [](/\ \A i \in 1..Len(df) : Cardinality(SpanLines(i)) <= 1
          /\ \A a, b \in 1..Len(stack) :
                a # b => stack[a].root_span_id # stack[b].root_span_id
          /\ Len(stack) <= Len(df)
          /\ Variant \in Nat)
    /\ [][Variant' < Variant]_vars

\* C10 witness: a frame holding two spans that are each other's parent,
\* in a trace that was printed, and a root has been processed to the end.
C10_Witness ==
    /\ tpc = "done"
    /\ \E i, j \in 1..Len(df) :
          /\ i # j
          /\ df[i].parent_id = df[j].span_id
          /\ df[j].parent_id = df[i].span_id
          /\ df[i].trace_id = df[j].trace_id
          /\ \E k \in TraceLines : out[k].trace = df[i].trace_id
    /\ \E l \in 1..Len(out) : out[l].role = "root"

(***************************************************************************)
(* Claims about detect_conversation_boundaries (SpecSegment)               *)
(***************************************************************************)

\* rows i and j are in the same returned conversation
SameSegment(i, j) ==
    \E k \in 1..Len(conversations) :
        /\ In(i, conversations[k])
        /\ In(j, conversations[k])

AllTimesKnown ==
    \A i \in 1..Len(sdf) : ~IsNa(sdf[i].start_time) /\ ~IsNa(sdf[i].end_time)

\* next.start_time - previous.end_time for the rows i and i + 1
GapAfter(i) == sdf[i + 1].start_time - sdf[i].end_time

\* C11: for a frame sorted by start_time whose timestamps are all known,
\* two consecutive spans are in the same returned segment exactly when
\* next.start_time - previous.end_time <= threshold. N spans each starting
\* threshold + 1 seconds after the end of the span before give N segments
\* of one span; N spans each starting 1 second after the end of the span
\* before give, with the default threshold of 300, one segment of N spans.
C11_SameSegmentIffGapWithinThreshold ==
    (spc = "done" /\ AllTimesKnown) =>
        /\ \A i \in 1..(Len(sdf) - 1) :
              SameSegment(i, i + 1) <=> GapAfter(i) <= gap_threshold_seconds
        /\ (\A i \in 1..(Len(sdf) - 1) : GapAfter(i) = gap_threshold_seconds + 1)
              => /\ Len(conversations) = Len(sdf)
                 /\ \A k \in 1..Len(conversations) : Len(conversations[k]) = 1
        /\ (/\ gap_threshold_seconds = DefaultGap
            /\ Len(sdf) > 0
            /\ \A i \in 1..(Len(sdf) - 1) : GapAfter(i) = 1)
              => conversations = <<AllPositions(sdf)>>

\* C11 witness: the loop has returned for a frame of known timestamps with
\* a gap equal to the threshold (same segment) and a gap one second larger
\* (another segment).
C11_Witness ==
    /\ spc = "done"
    /\ AllTimesKnown
    /\ \E i, j \in 1..(Len(sdf) - 1) :
          /\ GapAfter(i) = gap_threshold_seconds
          /\ SameSegment(i, i + 1)
          /\ GapAfter(j) = gap_threshold_seconds + 1
          /\ ~SameSegment(j, j + 1)

\* C12 as stated: a span whose start_time or end_time is missing never
\* starts a new segment (it is in the segment of the span before it) and
\* the loop consumes every row without raising.
C12_MissingTimeNeverStartsSegment ==
    spc = "done" =>
        /\ si = Len(sdf)
        /\ \A i \in 2..Len(sdf) :
              (IsNa(sdf[i].start_time) \/ IsNa(sdf[i].end_time))
                  => SameSegment(i - 1, i)

\* C12 amended: a span never starts a new segment when its own start_time
\* or the end_time of the span before it is missing, and the loop consumes
\* every row without raising; a span whose own end_time alone is missing is
\* placed by its start_time like any other span.
C12_UnknownGapNeverStartsSegment ==
    spc = "done" =>
        /\ si = Len(sdf)
        /\ \A i \in 2..Len(sdf) :
              IF IsNa(sdf[i].start_time) \/ IsNa(sdf[i - 1].end_time)
              THEN SameSegment(i - 1, i)
              ELSE SameSegment(i - 1, i) <=> GapAfter(i - 1) <= gap_threshold_seconds

\* C12 witness: a span that starts more than the threshold after the start
\* of the span before it, whose end_time is missing, was put in that span's
\* segment; and a span without start_time was put in the segment of the
\* span before it.
C12_Witness ==
    /\ spc = "done"
    /\ \E i \in 2..Len(sdf) :
          /\ ~IsNa(sdf[i].start_time)
          /\ IsNa(sdf[i - 1].end_time)
          /\ sdf[i].start_time - sdf[i - 1].start_time > gap_threshold_seconds
          /\ SameSegment(i - 1, i)
    /\ \E i \in 2..Len(sdf) :
          /\ IsNa(sdf[i].start_time)
          /\ SameSegment(i - 1, i)

\* the concatenation of a list of lists
RECURSIVE Concat(_)
Concat(ss) == IF ss = <<>> THEN <<>> ELSE Head(ss) \o Concat(Tail(ss))

\* C13: the returned segments, concatenated in the order returned, are
\* exactly the input sequence: every span is in exactly one segment, no
\* segment is empty and the order of the spans is unchanged.
C13_SegmentsConcatenateToInput ==
    spc = "done" =>
        /\ Concat(conversations) = AllPositions(sdf)
        /\ \A k \in 1..Len(conversations) : conversations[k] # <<>>

\* C13 witness: the loop has returned several segments, one of them of a
\* single span and one of several spans.
C13_Witness ==
    /\ spc = "done"
    /\ \E k, l \in 1..Len(conversations) :
          /\ Len(conversations[k]) = 1
          /\ Len(conversations[l]) > 1

(***************************************************************************)
(* Claims about compare_messages and check_complete_containment            *)
(* (SpecCompare)                                                           *)
(***************************************************************************)

Earlier == OrEmpty(earlier_msgs)
Later   == OrEmpty(later_msgs)

\* the elements of list a whose canonical form occurs in list b
Occurring(a, b) == {i \in 1..Len(a) : \E j \in 1..Len(b) : Canon(a[i]) = Canon(b[j])}

\* C14: duplicated_count is the number of elements of earlier whose
\* canonical form occurs in later, new_count the number of elements of
\* later whose canonical form does not occur in earlier. For
\* earlier = [user:hi] and later = [user:hi, assistant:hello] the overlap
\* count is 1, the new count 1, the overlap percentage 50 and the
\* containment check true.
C14_CountsOfDuplicatedAndNew ==
    /\ cm_out.tag = "return" =>
          /\ cm_out.duplicated_count = Cardinality(Occurring(Earlier, Later))
          /\ cm_out.new_count = Len(Later) - Cardinality(Occurring(Later, Earlier))
          /\ (Earlier = <<UserHi>> /\ Later = <<UserHi, AssistantHello>>) =>
                /\ cm_out.duplicated_count = 1
                /\ cm_out.new_count = 1
                /\ PctEq(cm_out.overlap_percentage, Percent(50))
    /\ (cc_out.tag = "return" /\ Earlier = <<UserHi>>
            /\ Later = <<UserHi, AssistantHello>>) => cc_out.is_complete_subset

\* C14 witness: both functions have returned for earlier = [user:hi] and
\* later = [user:hi, assistant:hello].
C14_Witness ==
    /\ cm_out.tag = "return"
    /\ cc_out.tag = "return"
    /\ Earlier = <<UserHi>>
    /\ Later = <<UserHi, AssistantHello>>

\* C15: overlap_percentage is overlap / len(later) * 100 for a non-empty
\* later list, and 0 (returned, no division error) when later is empty or
\* None.
C15_OverlapPercentage ==
    cm_out.tag = "return" =>
        IF later_msgs.none \/ later_msgs.items = <<>>
        THEN PctEq(cm_out.overlap_percentage, PctZero)
        ELSE PctEq(cm_out.overlap_percentage,
                   Pct(cm_out.duplicated_count, Len(later_msgs.items)))

\* C15 witness: compare_messages has returned a non-zero percentage for
\* lists of different lengths.
C15_Witness ==
    /\ cm_out.tag = "return"
    /\ Len(Earlier) # Len(Later)
    /\ cm_out.duplicated_count > 0

\* C16: is_complete_subset is true exactly when earlier is non-empty and
\* every element of earlier equals some element of later under the
\* canonical equality; it is false for an empty or None earlier.
C16_CompleteSubsetIffAllContained ==
    cc_out.tag = "return" =>
        /\ cc_out.is_complete_subset <=>
              (/\ ~earlier_msgs.none
               /\ earlier_msgs.items # <<>>
               /\ \A i \in 1..Len(earlier_msgs.items) :
                     \E j \in 1..Len(Later) :
                         Canon(earlier_msgs.items[i]) = Canon(Later[j]))
        /\ (earlier_msgs.none \/ earlier_msgs.items = <<>>) => ~cc_out.is_complete_subset

\* C16 witness: the flag was returned true for an earlier list of two
\* different elements.
C16_Witness ==
    /\ cc_out.tag = "return"
    /\ cc_out.is_complete_subset
    /\ Len(Earlier) = 2
    /\ Canon(Earlier[1]) # Canon(Earlier[2])

\* C17: for a non-empty sequence S, check_complete_containment(S, S) has
\* is_complete_subset true, containment_percentage 100 and missing_count 0.
C17_SequenceContainsItself ==
    (cc_out.tag = "return" /\ Earlier # <<>> /\ later_msgs = earlier_msgs) =>
        /\ cc_out.is_complete_subset
        /\ PctEq(cc_out.containment_percentage, Percent(100))
        /\ cc_out.missing_count = 0

\* C17 witness: the check has returned for a sequence of two elements
\* compared with itself.
C17_Witness ==
    /\ cc_out.tag = "return"
    /\ later_msgs = earlier_msgs
    /\ Len(Earlier) = 2

\* compare_messages(earlier, later + [e])
WithAppended(i) == compare_messages(earlier_msgs, ListOf(Later \o <<Earlier[i]>>))

\* C18 as stated: for every element e of earlier,
\* compare_messages(earlier, later + [e]).overlap_percentage is not less
\* than compare_messages(earlier, later).overlap_percentage.
C18_AppendNeverLowersOverlap ==
    cm_out.tag = "return" =>
        \A i \in 1..Len(Earlier) :
            PctLE(cm_out.overlap_percentage, WithAppended(i).overlap_percentage)

\* C18 amended: appending an element e of earlier to later never lowers
\* duplicated_count; it does not lower overlap_percentage when e does not
\* already occur in later and earlier holds no element twice.
C18_AppendOfNewElementKeepsOverlap ==
    cm_out.tag = "return" =>
        \A i \in 1..Len(Earlier) :
            /\ WithAppended(i).duplicated_count >= cm_out.duplicated_count
            /\ (/\ ~In(Canon(Earlier[i]), CanonList(later_msgs))
                /\ \A k, l \in 1..Len(Earlier) :
                      Canon(Earlier[k]) = Canon(Earlier[l]) => k = l)
                  => PctLE(cm_out.overlap_percentage,
                           WithAppended(i).overlap_percentage)

\* C18 witness: a non-zero percentage was returned for an earlier list
\* without repetition, one element of which does not occur in later.
C18_Witness ==
    /\ cm_out.tag = "return"
    /\ cm_out.duplicated_count > 0
    /\ Len(Earlier) = 2
    /\ Canon(Earlier[1]) # Canon(Earlier[2])
    /\ \E i \in 1..2 : ~In(Canon(Earlier[i]), CanonList(later_msgs))

\* the orders in which the pairs of a record can be written
Reorders(m) ==
    IF m.kind # "dict" THEN {m}
    ELSE {DictMsg(ps) : ps \in {q \in [1..Len(m.pairs) -> {m.pairs[i] : i \in 1..Len(m.pairs)}] :
                                  \A i \in 1..Len(m.pairs) : \E j \in 1..Len(m.pairs) : q[j] = m.pairs[i]}}

\* the sequences obtained from a sequence of messages by rewriting the key
\* order of its records
RECURSIVE VariantSeqs(_)
VariantSeqs(items) ==
    IF items = <<>> THEN {<<>>}
    ELSE {<<r>> \o t : r \in Reorders(Head(items)), t \in VariantSeqs(Tail(items))}

Variants(msgs) == IF msgs.none THEN {msgs} ELSE {ListOf(s) : s \in VariantSeqs(msgs.items)}

\* C19: the canonical equality does not depend on field order: permuting
\* the key order of any record of earlier or later leaves every count,
\* flag and list returned by compare_messages and
\* check_complete_containment unchanged, and two records with the same
\* keys and values compare equal.
C19_FieldOrderIsIrrelevant ==
    /\ cm_out.tag = "return" =>
          \A e \in Variants(earlier_msgs), l \in Variants(later_msgs) :
              compare_messages(e, l) = cm_out
    /\ cc_out.tag = "return" =>
          \A e \in Variants(earlier_msgs), l \in Variants(later_msgs) :
              check_complete_containment(e, l) = cc_out
    /\ \A m \in Msgs : \A r \in Reorders(m) : Canon(r) = Canon(m)

\* C19 witness: both functions have returned for an earlier list holding a
\* record and a later list holding the same record with its keys in another
\* order, and the record was counted as duplicated and contained.
C19_Witness ==
    /\ cm_out.tag = "return"
    /\ cc_out.tag = "return"
    /\ Earlier = <<UserHi>>
    /\ Later = <<UserHiReordered, AssistantHello>>
    /\ cm_out.duplicated_count = 1
    /\ cc_out.is_complete_subset

(***************************************************************************)
(* Claim about the five-span trace (SpecFiveSpans)                         *)
(***************************************************************************)

\* the printed lines of a role, in the order printed
LinesOf(role) == Filter(AllPositions(out), {k \in 1..Len(out) : out[k].role = role})

\* start_time of the span with the given id
StartOf(id) == df[CHOOSE p \in 1..Len(df) : df[p].span_id = id].start_time

\* C20: five spans sharing trace_id 'T1' without session metadata, spans
\* 1-3 with a null parent and spans 4-5 with span 2 as parent, give exactly
\* one session, with session_id 'T1'; the trace has exactly three roots
\* (spans 1, 2 and 3) and the children of span 2 are exactly spans 4 and 5,
\* printed in ascending start_time order.
C20_FiveSpanTrace ==
    /\ gpc = "done" =>
          /\ Len(grouped) = 1
          /\ grouped[1].key = T1
          /\ Len(grouped[1].rows) = Len(gdf)
    /\ tpc = "done" =>
          LET rs == LinesOf("root")
              cs == LinesOf("child")
          IN  /\ Len(rs) = 3
              /\ {out[rs[k]].span : k \in 1..Len(rs)} = {1, 2, 3}
              /\ Len(cs) = 2
              /\ {out[cs[k]].span : k \in 1..Len(cs)} = {4, 5}
              /\ \A k \in 1..Len(cs) : out[cs[k]].parent = 2
              /\ StartOf(out[cs[1]].span) <= StartOf(out[cs[2]].span)

\* C20 witness: both functions have returned, span 5 started before span 4
\* and was printed before it.
C20_Witness ==
    /\ gpc = "done"
    /\ tpc = "done"
    /\ StartOf(5) < StartOf(4)
    /\ \E k, l \in 1..Len(out) :
          /\ k < l
          /\ out[k].role = "child" /\ out[k].span = 5
          /\ out[l].role = "child" /\ out[l].span = 4

(***************************************************************************)
(* Further claims about the comparison (SpecCompare), the resolver copies  *)
(* (SpecResolver) and the gap reference (SpecSegment)                      *)
(***************************************************************************)

\* C24: the duplicate path and the new-message / containment paths use one
\* equality: duplicated_count of compare_messages equals contained_count
\* of check_complete_containment, and an element of later is listed in
\* new_messages only if it equals no element of earlier under the equality
\* that counts duplicates.
C24_OneEqualityOnAllPaths ==
    (cm_out.tag = "return" /\ cc_out.tag = "return") =>
        /\ cm_out.duplicated_count = cc_out.contained_count
        /\ \A j \in 1..Len(Later) :
              In(Canon(Later[j]), cm_out.new_messages) =>
                  /\ ~In(Canon(Later[j]), cm_out.duplicated_messages)
                  /\ \A i \in 1..Len(Earlier) : Canon(Earlier[i]) # Canon(Later[j])

\* C24 witness: both functions have returned for an earlier list that
\* repeats a record, contained in later under another key order, and a
\* later list that also holds a new message.
C24_Witness ==
    /\ cm_out.tag = "return"
    /\ cc_out.tag = "return"
    /\ Earlier = <<UserHi, UserHi>>
    /\ Later = <<UserHiReordered, AssistantHello>>
    /\ cm_out.duplicated_count = 2
    /\ cm_out.new_count = 1

\* C26: reconstruct_sessions.extract_session_id (the text of
\* analyze_sessions.extract_session_id) returns for every metadata the
\* session id query_traces.extract_session_id derives from it, and None
\* where the latter falls back to the trace id; in particular when the id
\* is carried by user_id alone.
C26_ResolverCopiesAgree ==
    (qt_out.tag = "return" /\ rs_out.tag # "pending") =>
        /\ rs_out.tag = "return"
        /\ rs_out.val = (IF qt_out.via = "fallback" THEN PyNone ELSE qt_out.val)

\* C27: for all input sequences, an earlier sequence that repeats an
\* element included, overlap_percentage lies between 0 and 100 and
\* duplicated_count does not exceed total_current.
C27_OverlapWithinBounds ==
    cm_out.tag = "return" =>
        /\ PctLE(Percent(0), cm_out.overlap_percentage)
        /\ PctLE(cm_out.overlap_percentage, Percent(100))
        /\ cm_out.duplicated_count <= cm_out.total_current

\* the last row before row i that has an end_time (0 when there is none)
LastKnownEnd(i) ==
    LET known == {j \in 1..(i - 1) : ~IsNa(sdf[j].end_time)}
    IN  IF known = {} THEN 0 ELSE Max(known)

\* C28: the gap reference is always the end_time of the row immediately
\* before: while the loop runs last_end_time is the end_time of the last
\* row consumed, and a row that follows a row without end_time is in that
\* row's segment whatever its start_time.
C28_GapReferenceIsPrecedingEnd ==
    /\ (spc = "loop" /\ si > 0) => last_end_time = sdf[si].end_time
    /\ spc = "done" =>
          \A i \in 2..Len(sdf) :
              IsNa(sdf[i - 1].end_time) => SameSegment(i - 1, i)

\* C28 witness: a row was put in the segment of the row before it, which
\* has no end_time, although it starts more than the threshold after the
\* last known end_time.
C28_Witness ==
    /\ spc = "done"
    /\ \E i \in 3..Len(sdf) :
          /\ IsNa(sdf[i - 1].end_time)
          /\ ~IsNa(sdf[i].start_time)
          /\ LastKnownEnd(i) > 0
          /\ sdf[i].start_time - sdf[LastKnownEnd(i)].end_time > gap_threshold_seconds
          /\ SameSegment(i - 1, i)

(***************************************************************************)
(* Claim about the order of the spans of a session (SpecSessionOrder)      *)
(***************************************************************************)

\* C23: in every emitted session the spans are in ascending start_time
\* order, the spans without start_time after all spans with one, and spans
\* with equal or missing start_time in their input order.
C23_SessionSpansAscending ==
    gpc = "done" =>
        \A g \in 1..Len(grouped) :
            \A a, b \in 1..Len(grouped[g].rows) :
                a < b =>
                    LET ra == grouped[g].rows[a]
                        rb == grouped[g].rows[b]
                    IN  /\ TimeLE(gdf[ra].start_time, gdf[rb].start_time)
                        /\ gdf[ra].start_time = gdf[rb].start_time => ra < rb

(***************************************************************************)
(* Claims about main of reconstruct_sessions.py (SpecMain)                 *)
(***************************************************************************)

\* C21: a group passes through COLLECTING, SEGMENTING, TREED, ANALYZED and
\* FINAL in that order and only the FINAL result is observable: the
\* hierarchy of a group is built only after the temporal split requested
\* for the run has been applied, and nothing is printed before main has
\* reached its end.
C21_StagesInOrder ==
    /\ (tpc # "idle" /\ args.method \in {"time", "both"}) => spc = "done"
    /\ out # <<>> => mpc = "exit"

\* C22: a run whose command line carries no --method option performs no
\* gap-based splitting: detect_conversation_boundaries is never entered.
C22_SegmentationOnlyOnRequest ==
    args.method_option = "" => (spc = "idle" /\ conversations = <<>>)

(***************************************************************************)
(* Claims about validate_environment (SpecAuth)                            *)
(***************************************************************************)

\* C25: for a request with is_vertex_request true the headers returned by
\* get_anthropic_headers and by validate_environment hold no
\* 'anthropic-beta' entry, whatever feature flags, OAuth token or
\* anthropic-beta request header are present.
C25_NoBetaHeaderForVertex ==
    (ve_out.tag = "return" /\ request.is_vertex_request) =>
        /\ ve_out.anthropic_headers.anthropic_beta = {}
        /\ ve_out.headers.anthropic_beta = {}

\* the bearer values found in the request headers (the headers argument
\* and the proxied headers)
RequestBearers ==
    { request.headers.authorization, request.headers.Authorization,
      request.litellm_params.proxy_server_request.authorization,
      request.litellm_params.secret_fields.authorization } \ {NoneStr}

\* C29: an OAuth bearer token taken from request headers is used only when
\* litellm_params.oauth_pass_through is enabled; with pass-through
\* disabled and an api_key that does not start with 'sk-ant-oat' the
\* function sets 'x-api-key' to the given key and writes no
\* 'authorization' header itself, whatever the request headers hold.
C29_HeaderTokenOnlyWithPassThrough ==
    ve_out.tag # "pending" =>
        /\ (/\ ve_out.tag = "return"
            /\ BearerPrefix \o ve_out.oauth_token \in RequestBearers)
              => request.litellm_params.oauth_pass_through
        /\ (/\ ~request.litellm_params.oauth_pass_through
            /\ request.api_key # NoneStr
            /\ ~StartsWith(request.api_key, OAuthPrefix))
              => /\ ve_out.tag = "return"
                 /\ ve_out.anthropic_headers.x_api_key = request.api_key
                 /\ ve_out.anthropic_headers.authorization = NoneStr
                 /\ ve_out.headers.x_api_key = request.api_key
                 /\ ve_out.headers.authorization = request.headers.authorization

\* C29 witness: with pass-through disabled, an API key and OAuth bearer
\* tokens both in the headers argument and in the proxied request headers,
\* the function has returned with the key under 'x-api-key'.
C29_Witness ==
    /\ ve_out.tag = "return"
    /\ ~request.litellm_params.oauth_pass_through
    /\ request.api_key = <<"s", "k", "-", "1">>
    /\ request.headers.authorization = BearerPrefix \o (OAuthPrefix \o <<"H">>)
    /\ request.litellm_params.proxy_server_request.kind = "dict"
    /\ ve_out.headers.x_api_key = request.api_key

\* an OAuth token is found in one of the four places
TokenResolved ==
    LET lp == request.litellm_params IN
    \/ StartsWith(request.api_key, OAuthPrefix)
    \/ lp.oauth_token # NoneStr /\ lp.oauth_pass_through
    \/ /\ lp.oauth_pass_through
       /\ \E h \in {request.headers.authorization, request.headers.Authorization} :
              StartsWith(h, BearerPrefix \o OAuthPrefix)
    \/ /\ lp.oauth_pass_through
       /\ \E h \in {lp.proxy_server_request.authorization, lp.secret_fields.authorization} :
              StartsWith(h, BearerPrefix \o OAuthPrefix)

\* C30: validate_environment raises exactly when no OAuth token was
\* resolved and no usable API key was given; when it returns, the headers
\* carry exactly one credential set by it: 'authorization: Bearer <token>'
\* when a token was resolved, otherwise 'x-api-key' with a non-empty key.
C30_RaisesIffNoCredential ==
    ve_out.tag # "pending" =>
        /\ ve_out.tag = "raise" <=> (~TokenResolved /\ ~StrTruthy(request.api_key))
        /\ ve_out.tag = "return" =>
              IF ve_out.oauth_token # NoneStr
              THEN /\ ve_out.anthropic_headers.authorization
                          = BearerPrefix \o ve_out.oauth_token
                   /\ ve_out.anthropic_headers.x_api_key = NoneStr
              ELSE /\ ve_out.anthropic_headers.authorization = NoneStr
                   /\ StrTruthy(ve_out.anthropic_headers.x_api_key)

====
